---------------------------- MODULE Spec2Model ----------------------------
(***************************************************************************)
(* Storage engines of the Obsidian vault index: MemoryStorage (Map +       *)
(* Fuse.js index) and DatabaseStorage (SQLite tables + FTS5 index), run    *)
(* side by side on the same sequence of upsertNote / upsertNotes / clear   *)
(* calls and probed with the same queries.                                 *)
(*                                                                         *)
(* Strings are sequences of one-character strings, so that toLowerCase,    *)
(* startsWith, includes, slice, SQL LIKE and SQL string comparison are     *)
(* computed character by character as the code computes them.              *)
(***************************************************************************)
EXTENDS Integers, Sequences, FiniteSets, TLC

VARIABLES
    tz,         \* host time-zone offset in hours (Date local getters)
    memNotes,   \* MemoryStorage.notes: Map<path, Note> in insertion order
    memFuse,    \* MemoryStorage.fuse: whether the index is built, and the array it was built from
    db,         \* DatabaseStorage.db: the tables notes, note_tags, note_frontmatter
                \* and notes_fts, each with its rows in rowid order
    latest,     \* history: the notes of the most recent upsert of each path since the last clear
    ops,        \* number of mutating calls made so far
    lastOp,     \* the last call made on both stores
    lastArg,    \* its argument
    memResult,  \* what MemoryStorage returned for it
    dbResult,   \* what DatabaseStorage returned for it
    disk,       \* the files on disk: records of absolute path, byte size and content
    cfg,        \* VaultConfig: useMemory, indexPatterns, excludePatterns, maxFileSize,
                \* maxSearchResults
    phase,      \* position of ObsidianVault.initialize()
    files,      \* indexNotes: the candidate files the glob scan pushed, in order
    pc,         \* indexNotes: per candidate, the await its callback is suspended at
    parsed,     \* indexNotes: per candidate, the note its callback returned (or no note)
    indexErrors, \* ObsidianVault.indexErrors
    readLog,    \* history: the candidates whose content readFile has returned in this pass
    passes,     \* number of initialize() calls made so far
    request,    \* the tool call the server's CallTool handler received last
    response,   \* what the handler returned for it
    vaultCalls, \* history: the calls the handler made on the vault for it
    dateString, \* the string handed to parseDate
    parsedDate, \* what parseDate returned for it
    txn,        \* DatabaseStorage's open transaction: the unit, the statements still
                \* to run, the uncommitted tables
    rebuilds,   \* calls of rebuildSearchIndex() the last mutating MemoryStorage call made
    proc,      \* main(): starting, connected (the transport is up) or exited
    exitCode,  \* the code the process exited with, if it did
    steps       \* history: the steps ObsidianVault.initialize() has completed, in order

vars == <<tz, memNotes, memFuse, db, latest, ops, lastOp, lastArg, memResult, dbResult,
          disk, cfg, phase, files, pc, parsed, indexErrors, readLog, passes,
          request, response, vaultCalls,
          dateString, parsedDate,
          txn, rebuilds,
          proc, exitCode, steps>>

indexer == <<disk, cfg, phase, files, pc, parsed, indexErrors, readLog, passes>>

server == <<request, response, vaultCalls>>

dates == <<dateString, parsedDate>>

transaction == <<txn>>

process == <<proc, exitCode>>

client == <<tz, latest, ops, lastOp, lastArg, memResult, dbResult, server, dates, transaction, process>>

store == <<memNotes, memFuse, db, latest, ops>>

---------------------------------------------------------------------------
(* Bounds of the model *)

MaxOps == 2         \* mutating calls per run
MaxBatch == 2       \* length of an upsertNotes batch drawn from the sample notes
BulkSize == 21      \* size of the bulk batch (one more than the default limit)

---------------------------------------------------------------------------
(* JavaScript / SQLite values *)

Undefined == <<"undefined">>    \* a missing property
Null == <<"null">>              \* SQL NULL / JS null
EmptyStr == <<>>

\* JS truthiness of a string-or-undefined value
Truthy(v) == v # Undefined /\ v # Null /\ v # EmptyStr

Min(a, b) == IF a <= b THEN a ELSE b

Range(s) == {s[i] : i \in 1..Len(s)}

RECURSIVE SelectSeqBy(_, _)
\* Array.prototype.filter with the set `keep` of accepted elements
SelectSeqBy(s, keep) ==
    IF s = <<>> THEN <<>>
    ELSE (IF Head(s) \in keep THEN <<Head(s)>> ELSE <<>>) \o SelectSeqBy(Tail(s), keep)

---------------------------------------------------------------------------
(* Character-level string operations *)

UpperChars == <<"A","B","C","D","E","F","G","H","I","J","K","L","M",
                "N","O","P","Q","R","S","T","U","V","W","X","Y","Z">>
LowerChars == <<"a","b","c","d","e","f","g","h","i","j","k","l","m",
                "n","o","p","q","r","s","t","u","v","w","x","y","z">>

LowerChar(c) ==
    IF \E i \in 1..26 : UpperChars[i] = c
    THEN LowerChars[CHOOSE i \in 1..26 : UpperChars[i] = c]
    ELSE c

\* String.prototype.toLowerCase / SQL LOWER()
ToLowerCase(s) == [i \in 1..Len(s) |-> LowerChar(s[i])]

\* String.prototype.startsWith
StartsWith(s, p) == Len(p) <= Len(s) /\ SubSeq(s, 1, Len(p)) = p

\* String.prototype.endsWith
EndsWith(s, p) == Len(p) <= Len(s) /\ SubSeq(s, Len(s) - Len(p) + 1, Len(s)) = p

\* String.prototype.includes
Includes(s, p) == \E i \in 0..(Len(s) - Len(p)) : SubSeq(s, i + 1, i + Len(p)) = p

RECURSIVE LikeFrom(_, _, _, _)
\* SQLite LIKE: % matches any run of characters, _ matches any one character,
\* other characters match case-insensitively (ASCII)
LikeFrom(s, i, pat, j) ==
    IF j > Len(pat) THEN i > Len(s)
    ELSE IF pat[j] = "%" THEN \E k \in i..(Len(s) + 1) : LikeFrom(s, k, pat, j + 1)
    ELSE IF i > Len(s) THEN FALSE
    ELSE IF pat[j] = "_" THEN LikeFrom(s, i + 1, pat, j + 1)
    ELSE LowerChar(s[i]) = LowerChar(pat[j]) /\ LikeFrom(s, i + 1, pat, j + 1)

Like(s, pat) == s # Null /\ LikeFrom(s, 1, pat, 1)

\* Characters in ASCII order, for SQL (BINARY collation) string comparison
AsciiOrder == <<"-", "/", "0", "1", "2", "3", "4", "5", "6", "7", "8", "9", ":", "T">>
Digits == {"0", "1", "2", "3", "4", "5", "6", "7", "8", "9"}

CharCode(c) == CHOOSE i \in 1..Len(AsciiOrder) : AsciiOrder[i] = c

DigitVal(c) == CharCode(c) - 3

RECURSIVE StrLess(_, _)
\* a < b under BINARY collation
StrLess(a, b) ==
    IF b = <<>> THEN FALSE
    ELSE IF a = <<>> THEN TRUE
    ELSE IF Head(a) = Head(b) THEN StrLess(Tail(a), Tail(b))
    ELSE CharCode(Head(a)) < CharCode(Head(b))

\* SQL a <= b; a comparison with NULL is not true
SqlLeq(a, b) == a # Null /\ b # Null /\ (a = b \/ StrLess(a, b))

---------------------------------------------------------------------------
(* Sample strings *)

P_WorkA == <<"W", "o", "r", "k", "/", "a", ".", "m", "d">>  \* "Work/a.md"
P_WorkSubB == <<"W", "o", "r", "k", "/", "s", "u", "b", "/", "b", ".", "m", "d">>  \* "Work/sub/b.md"
P_WorkPlan == <<"P", "r", "o", "j", "e", "c", "t", "s", "/", "W", "o", "r", "k", "-", "p", "l", "a", "n", ".", "m", "d">>  \* "Projects/Work-plan.md"
P_ArchiveX == <<"A", "r", "c", "h", "i", "v", "e", "/", "x", ".", "m", "d">>  \* "Archive/x.md"
T_work == <<"w", "o", "r", "k">>  \* "work"
T_workPuppet == <<"w", "o", "r", "k", "/", "p", "u", "p", "p", "e", "t">>  \* "work/puppet"
T_homework == <<"h", "o", "m", "e", "w", "o", "r", "k">>  \* "homework"
T_Work == <<"W", "o", "r", "k">>  \* "Work"
T_personal == <<"p", "e", "r", "s", "o", "n", "a", "l">>  \* "personal"
T_abc == <<"a", "-", "b", "/", "c">>  \* "a-b/c"
T_a_b == <<"a", "_", "b">>  \* "a_b"
PP_WorkRec == <<"W", "o", "r", "k", "/", "*", "*">>  \* "Work/**"
PP_work_plan == <<"w", "o", "r", "k", "_", "p", "l", "a", "n">>  \* "work_plan"
PP_WORK == <<"W", "O", "R", "K">>  \* "WORK"
PP_sub == <<"s", "u", "b", "/">>  \* "sub/"
D_0110 == <<"2", "0", "2", "5", "-", "0", "1", "-", "1", "0">>  \* "2025-01-10"
D_0112 == <<"2", "0", "2", "5", "-", "0", "1", "-", "1", "2">>  \* "2025-01-12"
D_0115 == <<"2", "0", "2", "5", "-", "0", "1", "-", "1", "5">>  \* "2025-01-15"
D_0115T == <<"2", "0", "2", "5", "-", "0", "1", "-", "1", "5", "T", "0", "9", ":", "0", "0">>  \* "2025-01-15T09:00"
D_2024 == <<"2", "0", "2", "4", "-", "1", "2", "-", "0", "1">>  \* "2024-12-01"
W_original == <<"o", "r", "i", "g", "i", "n", "a", "l">>  \* "original"
W_updated == <<"u", "p", "d", "a", "t", "e", "d">>  \* "updated"
W_plan == <<"p", "l", "a", "n">>  \* "plan"
S_OriginalTitle == <<"O", "r", "i", "g", "i", "n", "a", "l">>  \* "Original"
S_UpdatedTitle == <<"U", "p", "d", "a", "t", "e", "d">>  \* "Updated"
S_OriginalContent == <<"O", "r", "i", "g", "i", "n", "a", "l", " ", "c", "o", "n", "t", "e", "n", "t">>  \* "Original content"
S_UpdatedContent == <<"U", "p", "d", "a", "t", "e", "d", " ", "c", "o", "n", "t", "e", "n", "t">>  \* "Updated content"
S_Plan == <<"P", "l", "a", "n">>  \* "Plan"
S_PlanContent == <<"t", "h", "e", " ", "p", "l", "a", "n">>  \* "the plan"
E_note == <<"n", "o", "t", "e">>  \* "note"
E_project == <<"p", "r", "o", "j", "e", "c", "t">>  \* "project"
E_task == <<"t", "a", "s", "k">>  \* "task"
E_daily == <<"d", "a", "i", "l", "y">>  \* "daily"
E_meeting == <<"m", "e", "e", "t", "i", "n", "g">>  \* "meeting"
E_active == <<"a", "c", "t", "i", "v", "e">>  \* "active"
E_archived == <<"a", "r", "c", "h", "i", "v", "e", "d">>  \* "archived"
E_idea == <<"i", "d", "e", "a">>  \* "idea"
E_completed == <<"c", "o", "m", "p", "l", "e", "t", "e", "d">>  \* "completed"
E_work == <<"w", "o", "r", "k">>  \* "work"
E_personal == <<"p", "e", "r", "s", "o", "n", "a", "l">>  \* "personal"
E_knowledge == <<"k", "n", "o", "w", "l", "e", "d", "g", "e">>  \* "knowledge"
E_life == <<"l", "i", "f", "e">>  \* "life"
E_dailies == <<"d", "a", "i", "l", "i", "e", "s">>  \* "dailies"

---------------------------------------------------------------------------
(* Dates *)

HostOffsets == {-5, 0}   \* hours east of UTC

Num2(a, b) == 10 * DigitVal(a) + DigitVal(b)

\* /^\d{4}-\d{2}-\d{2}$/
IsDateFormat(s) ==
    /\ Len(s) = 10
    /\ s[5] = "-" /\ s[8] = "-"
    /\ \A i \in {1, 2, 3, 4, 6, 7, 9, 10} : s[i] \in Digits

YearOf(s) == 100 * Num2(s[1], s[2]) + Num2(s[3], s[4])
MonthOf(s) == Num2(s[6], s[7])
DayOf(s) == Num2(s[9], s[10])

IsLeap(y) == (y % 4 = 0 /\ y % 100 # 0) \/ y % 400 = 0

DaysInMonth(y, m) ==
    IF m = 2 THEN (IF IsLeap(y) THEN 29 ELSE 28)
    ELSE IF m \in {4, 6, 9, 11} THEN 30 ELSE 31

\* An order-preserving day ordinal of a calendar date
DayOrdinal(y, m, d) == (y * 12 + (m - 1)) * 31 + (d - 1)

NoDate == <<>>     \* parseDate's null, and the NaN of an invalid Date

NotParsed == <<-1>>     \* no call of parseDate has returned yet

\* parseDate(dateString) on a host `offset` hours east of UTC: NoDate, or <<d>>
\* for the UTC day d the string names. new Date("YYYY-MM-DD") is UTC midnight, while
\* getFullYear/getMonth/getDate read it in local time: west of UTC they read
\* the previous day and the component check fails.
parseDate(s, offset) ==
    IF ~Truthy(s) THEN NoDate
    ELSE IF ~IsDateFormat(s) THEN NoDate
    ELSE IF MonthOf(s) \notin 1..12 \/ DayOf(s) \notin 1..31 THEN NoDate
    ELSE IF DayOf(s) > DaysInMonth(YearOf(s), MonthOf(s)) THEN NoDate
    ELSE IF offset < 0 THEN NoDate
    ELSE <<DayOrdinal(YearOf(s), MonthOf(s), DayOf(s))>>

\* /^\d{4}-\d{2}-\d{2}T\d{2}:\d{2}$/, which new Date() reads as local time
IsDateTimeFormat(s) ==
    /\ Len(s) = 16
    /\ IsDateFormat(SubSeq(s, 1, 10))
    /\ s[11] = "T" /\ s[14] = ":"
    /\ \A i \in {12, 13, 15, 16} : s[i] \in Digits

EpochZero == <<"#0">>      \* the number 0 handed to new Date()

\* new Date(v).getTime(): <<minutes>>, or NoDate for NaN; v is a string or EpochZero
GetTime(v, offset) ==
    IF v = EpochZero THEN <<0>>
    ELSE IF IsDateFormat(v) /\ MonthOf(v) \in 1..12 /\ DayOf(v) \in 1..31
    THEN <<DayOrdinal(YearOf(v), MonthOf(v), DayOf(v)) * 1440>>
    ELSE IF IsDateTimeFormat(v) /\ MonthOf(v) \in 1..12 /\ DayOf(v) \in 1..31
    THEN <<DayOrdinal(YearOf(v), MonthOf(v), DayOf(v)) * 1440
           + Num2(v[12], v[13]) * 60 + Num2(v[15], v[16]) - offset * 60>>
    ELSE NoDate

---------------------------------------------------------------------------
(* Notes *)

\* a custom frontmatter value: a string, or a Date object (an unquoted YAML date)
StrVal(s) == [kind |-> "string", v |-> s]
DateVal(s) == [kind |-> "date", v |-> s]

Frontmatter(created, modified, tags, type, status, category, custom) ==
    [created |-> created, modified |-> modified, tags |-> tags, type |-> type,
     status |-> status, category |-> category, custom |-> custom]

Note(path, title, content, excerpt, fm) ==
    [path |-> path, title |-> title, content |-> content, excerpt |-> excerpt,
     frontmatter |-> fm]

NoteA1 == Note(P_WorkA, S_OriginalTitle, S_OriginalContent, S_OriginalTitle,
               Frontmatter(D_0110, D_0115, <<T_workPuppet, T_personal>>, E_project, E_active,
                           E_work, {<<"owner", StrVal(T_work)>>, <<"due", DateVal(D_0112)>>}))
NoteA2 == Note(P_WorkA, S_UpdatedTitle, S_UpdatedContent, Undefined,
               Frontmatter(Undefined, D_0110, <<T_Work>>, Undefined, Undefined,
                           Undefined, {<<"due", DateVal(D_0115)>>}))
NoteB1 == Note(P_WorkSubB, S_Plan, S_PlanContent, Undefined,
               Frontmatter(D_0112, D_0110, <<T_work>>, E_note, E_active,
                           E_personal, {}))
NoteB2 == Note(P_WorkSubB, S_UpdatedTitle, S_PlanContent, Undefined,
               Frontmatter(D_0112, Undefined, <<T_homework, T_personal>>, E_note, E_idea,
                           E_work, {}))
NoteP1 == Note(P_WorkPlan, S_Plan, S_OriginalContent, Undefined,
               Frontmatter(Undefined, D_0115T, <<T_abc>>, E_task, E_active,
                           E_work, {}))
NoteX1 == Note(P_ArchiveX, S_OriginalTitle, S_PlanContent, Undefined,
               Frontmatter(Undefined, D_2024, <<T_personal>>, E_note, E_archived,
                           E_personal, {}))

SampleNotes == {NoteA1, NoteA2, NoteB1, NoteB2, NoteP1, NoteX1}

\* two decimal digits of i, 0 <= i <= 99
TwoDigits(i) == <<AsciiOrder[(i \div 10) + 3], AsciiOrder[(i % 10) + 3]>>

\* the i-th note of the bulk batch: Dailies/<ii>.md, modified 2025-02-<ii>
BulkNote(i) ==
    Note(<<"D", "a", "i", "l", "i", "e", "s", "/">> \o TwoDigits(i) \o <<".", "m", "d">>,
         <<"D", "a", "y">>, <<"l", "o", "g">>, Undefined,
         Frontmatter(Undefined, <<"2", "0", "2", "5", "-", "0", "2", "-">> \o TwoDigits(i),
                     <<>>, E_daily, E_active, E_dailies, {}))

BulkBatch == [i \in 1..BulkSize |-> BulkNote(i)]

BatchNotes == {NoteA1, NoteA2, NoteB1}

\* the batches upsertNotes is called with
Batches ==
    UNION {[1..n -> BatchNotes] : n \in 0..MaxBatch} \cup {BulkBatch}

---------------------------------------------------------------------------
(* MemoryStorage *)

PathsOf(notes) == {notes[i].path : i \in 1..Len(notes)}

\* an array push in place of the Map: a path upserted again is held twice
MapSet_Push(notes, note) == Append(notes, note)

\* Map.prototype.set(note.path, note): an existing key keeps its position
MapSet(notes, note) ==
    IF note.path \in PathsOf(notes)
    THEN [i \in 1..Len(notes) |-> IF notes[i].path = note.path THEN note ELSE notes[i]]
    ELSE Append(notes, note)

RECURSIVE MapSetAll(_, _)
RECURSIVE UpsertNotesCalls_RebuildInLoop(_)
MapSetAll(notes, batch) ==
    IF batch = <<>> THEN notes
    ELSE MapSetAll(MapSet(notes, Head(batch)), Tail(batch))

\* rebuildSearchIndex(): a new Fuse over Array.from(this.notes.values())
rebuildSearchIndex(notes) == [built |-> TRUE, docs |-> notes]

FuseCleared == [built |-> FALSE, docs |-> <<>>]

\* The calls the body of upsertNote makes on the store's fields, in order
UpsertNoteCalls(note) == <<"set", "rebuildSearchIndex">>

\* upsertNotes with the rebuild inside its loop
UpsertNotesCalls_RebuildInLoop(batch) ==
    IF batch = <<>> THEN <<>>
    ELSE <<"set", "rebuildSearchIndex">>
             \o UpsertNotesCalls_RebuildInLoop(Tail(batch))

\* The calls the body of upsertNotes makes: a set per note, then one rebuild
UpsertNotesCalls(batch) ==
    [i \in 1..Len(batch) |-> "set"] \o <<"rebuildSearchIndex">>

\* The calls the body of clear makes
ClearCalls == <<"clear">>

RebuildCalls(calls) ==
    Cardinality({i \in 1..Len(calls) : calls[i] = "rebuildSearchIndex"})


\* the values of the keys the Fuse index is built over
FuseFields(note) ==
    {note.title, note.content}
        \cup Range(note.frontmatter.tags)
        \cup {v \in {note.frontmatter.type, note.frontmatter.status,
                     note.frontmatter.category} : Truthy(v)}

\* Fuse.js match of `query` against one indexed note (threshold 0.4,
\* ignoreLocation): abstracted to case-insensitive containment in a key value
FuseMatches(note, query) ==
    \E f \in FuseFields(note) : Includes(ToLowerCase(f), ToLowerCase(query))

\* this.fuse.search(query).map(result => result.item)
FuseSearch(fuse, query) ==
    SelectSeqBy(fuse.docs, {n \in Range(fuse.docs) : FuseMatches(n, query)})

matchesTag(noteTag, searchTag) ==
    LET normalizedNoteTag == ToLowerCase(noteTag)
        normalizedSearchTag == ToLowerCase(searchTag)
    IN  \/ normalizedNoteTag = normalizedSearchTag
        \/ StartsWith(normalizedNoteTag, normalizedSearchTag \o <<"/">>)

\* the path-pattern predicate of applyFilters
MemPathMatches(notePathRaw, patternRaw) ==
    LET pattern == ToLowerCase(patternRaw)
        notePath == ToLowerCase(notePathRaw)
    IN  IF EndsWith(pattern, <<"/", "*", "*">>)
        THEN StartsWith(notePath, SubSeq(pattern, 1, Len(pattern) - 3))
        ELSE Includes(notePath, pattern)

\* MemIsArchived without toLowerCase()
MemIsArchived_CaseSensitive(note) ==
    StartsWith(note.path, <<"a", "r", "c", "h", "i", "v", "e", "/">>)

MemIsArchived(note) == StartsWith(ToLowerCase(note.path), <<"a", "r", "c", "h", "i", "v", "e", "/">>)

\* MemTagsMatch with every() in place of the outer some()
MemTagsMatch_Every(note, tags) ==
    \A i \in 1..Len(tags) : \E j \in 1..Len(note.frontmatter.tags) :
        matchesTag(note.frontmatter.tags[j], tags[i])

MemTagsMatch(note, tags) ==
    \E i \in 1..Len(tags) : \E j \in 1..Len(note.frontmatter.tags) :
        matchesTag(note.frontmatter.tags[j], tags[i])

MemDateFromOk(note, dateFrom, offset) ==
    LET fromDate == parseDate(dateFrom, offset)
        noteDate == parseDate(note.frontmatter.modified, offset)
    IN  fromDate # NoDate => (noteDate # NoDate /\ noteDate[1] >= fromDate[1])

MemDateToOk(note, dateTo, offset) ==
    LET toDate == parseDate(dateTo, offset)
        noteDate == parseDate(note.frontmatter.modified, offset)
    IN  toDate # NoDate => (noteDate # NoDate /\ noteDate[1] <= toDate[1])

\* whether applyFilters keeps `note` under `options`
MemKeeps(note, options, offset) ==
    /\ Truthy(options.path) => MemPathMatches(note.path, options.path)
    /\ ~options.includeArchive => ~MemIsArchived(note)
    /\ Len(options.tags) > 0 => MemTagsMatch(note, options.tags)
    /\ Truthy(options.type) => note.frontmatter.type = options.type
    /\ Truthy(options.status) => note.frontmatter.status = options.status
    /\ Truthy(options.category) => note.frontmatter.category = options.category
    /\ Truthy(options.dateFrom) => MemDateFromOk(note, options.dateFrom, offset)
    /\ Truthy(options.dateTo) => MemDateToOk(note, options.dateTo, offset)

applyFilters(notes, options, offset) ==
    SelectSeqBy(notes, {n \in Range(notes) : MemKeeps(n, options, offset)})

\* the date sortByRecency reads: modified || created || 0
RecencyValue(note) ==
    IF Truthy(note.frontmatter.modified) THEN note.frontmatter.modified
    ELSE IF Truthy(note.frontmatter.created) THEN note.frontmatter.created
    ELSE EpochZero

RecencyTime(note, offset) == GetTime(RecencyValue(note), offset)

\* the comparator of sortByRecency is negative: a sorts before b
SortsBefore(a, b, offset) ==
    LET dateA == RecencyTime(a, offset)
        dateB == RecencyTime(b, offset)
    IN  dateA # NoDate /\ dateB # NoDate /\ dateB[1] - dateA[1] < 0

RECURSIVE InsertByRecency(_, _, _)
\* stable insertion of note n into the sorted sequence s
InsertByRecency(s, n, offset) ==
    IF s = <<>> THEN <<n>>
    ELSE IF SortsBefore(n, Head(s), offset) THEN <<n>> \o s
    ELSE <<Head(s)>> \o InsertByRecency(Tail(s), n, offset)

RECURSIVE sortByRecency(_, _)
\* Array.prototype.sort (stable) with the recency comparator
sortByRecency(notes, offset) ==
    IF notes = <<>> THEN <<>>
    ELSE InsertByRecency(sortByRecency(SubSeq(notes, 1, Len(notes) - 1), offset),
                         notes[Len(notes)], offset)

DefaultLimit == 20

\* options.limit || 20
LimitOf(options) ==
    IF options.hasLimit /\ options.limit # 0 THEN options.limit ELSE DefaultLimit

\* Slice that keeps one element too many
Slice_OneMore(s, limit) == SubSeq(s, 1, Min(limit + 1, Len(s)))

\* Array.prototype.slice(0, limit), limit >= 0
Slice(s, limit) == SubSeq(s, 1, Min(limit, Len(s)))

MemSearchNotes(notes, fuse, query, options, offset) ==
    LET results == IF Truthy(query) /\ fuse.built
                   THEN FuseSearch(fuse, query)
                   ELSE notes
        filtered == applyFilters(results, options, offset)
        sorted == sortByRecency(filtered, offset)
    IN  Slice(sorted, LimitOf(options))

MemGetNotesByTag(notes, tag, offset) ==
    sortByRecency(
        SelectSeqBy(notes, {n \in Range(notes) :
            \E j \in 1..Len(n.frontmatter.tags) : matchesTag(n.frontmatter.tags[j], tag)}),
        offset)

MemGetRecentNotes(notes, limit, offset) ==
    Slice(sortByRecency(notes, offset), limit)

MemGetNote(notes, path) ==
    IF path \in PathsOf(notes)
    THEN (CHOOSE n \in Range(notes) : n.path = path)
    ELSE Null

MemGetAllNotes(notes) == notes

---------------------------------------------------------------------------
(* DatabaseStorage *)

\* v || null, as bound to a SQL parameter
OrNull(v) == IF Truthy(v) THEN v ELSE Null

\* v || fallback
OrElse(v, fallback) == IF Truthy(v) THEN v ELSE fallback

\* JSON.stringify of a custom value: a Date serialises to its string form
JsonStringify(val) == [json |-> val.v]

\* JSON.parse of a stored value
JsonParse(text) == StrVal(text.json)

EmptyDb == [notes |-> <<>>, tags |-> <<>>, fm |-> <<>>, fts |-> <<>>]

\* DELETE FROM <table> WHERE note_path = ? / the row REPLACE removes
DeletePath(rows, path) ==
    SelectSeqBy(rows, {r \in Range(rows) : r.path # path})

NoteRow(note) ==
    [path |-> note.path, title |-> note.title, content |-> note.content,
     excerpt |-> OrNull(note.excerpt),
     created |-> OrNull(note.frontmatter.created),
     modified |-> OrNull(note.frontmatter.modified),
     type |-> OrElse(note.frontmatter.type, E_note),
     status |-> OrElse(note.frontmatter.status, E_active),
     category |-> OrElse(note.frontmatter.category, E_personal)]

TagRows(note) ==
    [i \in 1..Len(note.frontmatter.tags) |->
        [path |-> note.path, tag |-> note.frontmatter.tags[i]]]

RECURSIVE SetToRows(_, _)
\* one note_frontmatter row per custom key
SetToRows(path, custom) ==
    IF custom = {} THEN <<>>
    ELSE LET kv == CHOOSE x \in custom : TRUE
         IN  <<[path |-> path, key |-> kv[1], value |-> JsonStringify(kv[2])]>>
                 \o SetToRows(path, custom \ {kv})

FtsRow(note) == [path |-> note.path, title |-> note.title, content |-> note.content]

\* INSERT OR REPLACE INTO notes_fts (path, title, content): the FTS5 table has
\* no uniqueness constraint but its rowid, and no rowid is given, so nothing
\* conflicts and the row is added
FtsInsertOrReplace(fts, row) == Append(fts, row)

\* DbUpsertOne without DELETE FROM note_tags / note_frontmatter: the rows of the
\* earlier version are merged with the new ones
DbUpsertOne_Merging(tbl, note) ==
    [notes |-> Append(DeletePath(tbl.notes, note.path), NoteRow(note)),
     tags |-> tbl.tags \o TagRows(note),
     fm |-> tbl.fm \o SetToRows(note.path, note.frontmatter.custom),
     fts |-> FtsInsertOrReplace(tbl.fts, FtsRow(note))]

\* the statements of one note inside the upsert transaction
DbUpsertOne(tbl, note) ==
    [notes |-> Append(DeletePath(tbl.notes, note.path), NoteRow(note)),
     tags |-> DeletePath(tbl.tags, note.path) \o TagRows(note),
     fm |-> DeletePath(tbl.fm, note.path) \o SetToRows(note.path, note.frontmatter.custom),
     fts |-> FtsInsertOrReplace(tbl.fts, FtsRow(note))]

\* PRIMARY KEY (note_path, tag): the second INSERT INTO note_tags of a tag the
\* note repeats fails with a constraint error
DbConstraintFails(note) ==
    \E i, j \in 1..Len(note.frontmatter.tags) :
        i < j /\ note.frontmatter.tags[i] = note.frontmatter.tags[j]

RECURSIVE DbUpsertAll_Reversed(_, _)
\* DbUpsertAll that walks the batch from its last note to its first
DbUpsertAll_Reversed(tbl, batch) ==
    IF batch = <<>> THEN tbl
    ELSE DbUpsertAll_Reversed(DbUpsertOne(tbl, batch[Len(batch)]),
                              SubSeq(batch, 1, Len(batch) - 1))

RECURSIVE DbUpsertAll(_, _)
\* for (const note of notes) { the statements of upsertNote } in one transaction
DbUpsertAll(tbl, batch) ==
    IF batch = <<>> THEN tbl
    ELSE DbUpsertAll(DbUpsertOne(tbl, Head(batch)), Tail(batch))

\* this.db.transaction(...)(): every statement of the batch, or none of them
\* when one throws
DbTransaction(tbl, batch) ==
    IF \E i \in 1..Len(batch) : DbConstraintFails(batch[i]) THEN tbl
    ELSE DbUpsertAll(tbl, batch)

\* The statements one note contributes to the transaction function, in the order
\* the code runs them
Statements(note) ==
    <<[op |-> "replaceNote", path |-> note.path, row |-> NoteRow(note)],
      [op |-> "deleteTags", path |-> note.path, row |-> [path |-> note.path]],
      [op |-> "deleteFm", path |-> note.path, row |-> [path |-> note.path]]>>
    \o [i \in 1..Len(note.frontmatter.tags) |->
          [op |-> "insertTag", path |-> note.path, row |-> TagRows(note)[i]]]
    \o [i \in 1..Cardinality(note.frontmatter.custom) |->
          [op |-> "insertFm", path |-> note.path,
           row |-> SetToRows(note.path, note.frontmatter.custom)[i]]]
    \o <<[op |-> "replaceFts", path |-> note.path, row |-> FtsRow(note)]>>

RECURSIVE StatementsOfAll(_)
\* for (const note of notes) { ... }
StatementsOfAll(batch) ==
    IF batch = <<>> THEN <<>>
    ELSE Statements(Head(batch)) \o StatementsOfAll(Tail(batch))

\* PRIMARY KEY (note_path, tag): INSERT INTO note_tags of a row that is there throws
StatementFails(tbl, st) ==
    st.op = "insertTag" /\ \E r \in Range(tbl.tags) : r = st.row

\* stmt.run(...) of one statement on the tables the connection sees
RunStatement(tbl, st) ==
    IF st.op = "replaceNote"
    THEN [tbl EXCEPT !.notes = Append(DeletePath(@, st.path), st.row)]
    ELSE IF st.op = "deleteTags" THEN [tbl EXCEPT !.tags = DeletePath(@, st.path)]
    ELSE IF st.op = "deleteFm" THEN [tbl EXCEPT !.fm = DeletePath(@, st.path)]
    ELSE IF st.op = "insertTag" THEN [tbl EXCEPT !.tags = Append(@, st.row)]
    ELSE IF st.op = "insertFm" THEN [tbl EXCEPT !.fm = Append(@, st.row)]
    ELSE [tbl EXCEPT !.fts = FtsInsertOrReplace(@, st.row)]

NoExit == <<>>      \* the process is running

\* the steps of ObsidianVault.initialize(), in the order of its body
InitializeSteps == <<"storage.initialize", "indexNotes", "upsertNotes">>

NoTxn ==
    [open |-> FALSE, unit |-> <<>>, before |-> EmptyDb, work |-> EmptyDb,
     todo |-> <<>>, failed |-> FALSE]

\* Without db.transaction(...) every statement would be committed as it runs
DuringTransaction_Autocommit(committed, work) == work

\* What the database file holds, for every other reader, while the transaction
\* function runs: the tables as they were at BEGIN
DuringTransaction(committed, work) == committed

\* rowToNote(row)
rowToNote(tbl, row) ==
    LET tagRows == SelectSeqBy(tbl.tags, {r \in Range(tbl.tags) : r.path = row.path})
        fmRows == {r \in Range(tbl.fm) : r.path = row.path}
    IN  Note(row.path, row.title, row.content, row.excerpt,
             Frontmatter(row.created, row.modified,
                         [i \in 1..Len(tagRows) |-> tagRows[i].tag],
                         row.type, row.status, row.category,
                         {<<r.key, JsonParse(r.value)>> : r \in fmRows}))

DbGetNote(tbl, path) ==
    IF \E r \in Range(tbl.notes) : r.path = path
    THEN rowToNote(tbl, CHOOSE r \in Range(tbl.notes) : r.path = path)
    ELSE Null

DbGetAllNotes(tbl) == [i \in 1..Len(tbl.notes) |-> rowToNote(tbl, tbl.notes[i])]

IsAlnum(c) == LowerChar(c) \in Range(LowerChars) \cup Digits

\* the tokens the FTS5 tokenizer cuts a text into: maximal alphanumeric runs
Tokens(s) ==
    {SubSeq(s, i, j) : <<i, j>> \in
        {ij \in (1..Len(s)) \X (1..Len(s)) :
            /\ ij[1] <= ij[2]
            /\ \A k \in ij[1]..ij[2] : IsAlnum(s[k])
            /\ (ij[1] = 1 \/ ~IsAlnum(s[ij[1] - 1]))
            /\ (ij[2] = Len(s) \/ ~IsAlnum(s[ij[2] + 1]))}}

\* tokenize = 'porter': lower case, then the stemmer (its plural and -ed steps)
PorterStem(w) ==
    LET l == ToLowerCase(w)
    IN  IF Len(l) > 4 /\ EndsWith(l, <<"e", "d">>) THEN SubSeq(l, 1, Len(l) - 2)
        ELSE IF Len(l) > 3 /\ EndsWith(l, <<"s">>) /\ ~EndsWith(l, <<"s", "s">>)
        THEN SubSeq(l, 1, Len(l) - 1)
        ELSE l

\* notes_fts MATCH ? for a one-word query
FtsMatches(ftsRow, query) ==
    PorterStem(query) \in {PorterStem(w) : w \in Tokens(ftsRow.title) \cup Tokens(ftsRow.content)}

\* (nt.tag = ? OR nt.tag LIKE ?) with parameters tag, tag + '/%'
DbTagMatches(rowTag, tag) == rowTag = tag \/ Like(rowTag, tag \o <<"/", "%">>)

\* the LIKE pattern the path filter binds
DbPathPattern(patternRaw) ==
    LET pattern == ToLowerCase(patternRaw)
    IN  IF EndsWith(pattern, <<"/", "*", "*">>)
        THEN SubSeq(pattern, 1, Len(pattern) - 3) \o <<"%">>
        ELSE <<"%">> \o pattern \o <<"%">>

DbPathMatches(path, patternRaw) == Like(ToLowerCase(path), DbPathPattern(patternRaw))

\* LOWER(n.path) LIKE 'archive/%'
DbIsArchived(path) ==
    Like(ToLowerCase(path), <<"a", "r", "c", "h", "i", "v", "e", "/", "%">>)

\* the WHERE clause of searchNotes, on a row of notes joined with its
\* note_tags and notes_fts rows
DbWhere(tbl, row, query, options) ==
    /\ Truthy(query) =>
           \E f \in Range(tbl.fts) : f.path = row.path /\ FtsMatches(f, query)
    /\ Len(options.tags) > 0 =>
           \E nt \in Range(tbl.tags) : nt.path = row.path
               /\ \E i \in 1..Len(options.tags) : DbTagMatches(nt.tag, options.tags[i])
    /\ Truthy(options.path) => DbPathMatches(row.path, options.path)
    /\ ~options.includeArchive => ~DbIsArchived(row.path)
    /\ Truthy(options.type) => row.type = options.type
    /\ Truthy(options.status) => row.status = options.status
    /\ Truthy(options.category) => row.category = options.category
    /\ Truthy(options.dateFrom) => SqlLeq(options.dateFrom, row.modified)
    /\ Truthy(options.dateTo) => SqlLeq(row.modified, options.dateTo)

\* ORDER BY n.modified DESC: row a may precede row b (NULL sorts last)
DbNotAfter(a, b) ==
    \/ b.modified = Null
    \/ (a.modified # Null /\ SqlLeq(b.modified, a.modified))

RECURSIVE SeqPermutations(_)
\* all the sequences that list the elements of S once each
SeqPermutations(S) ==
    IF S = {} THEN {<<>>}
    ELSE UNION {{<<x>> \o p : p \in SeqPermutations(S \ {x})} : x \in S}

RECURSIVE DbOrderings(_, _)
\* the row orders ORDER BY allows: by modified DESC when `byDate`, with rows of
\* equal rank in any order; any order at all under ORDER BY fts.rank
DbOrderings(rows, byDate) ==
    IF rows = {} THEN {<<>>}
    ELSE IF ~byDate THEN SeqPermutations(rows)
    ELSE LET top == {r \in rows : \A s \in rows : DbNotAfter(r, s)}
         IN  UNION {{p \o rest : rest \in DbOrderings(rows \ top, byDate)} :
                        p \in SeqPermutations(top)}

\* options.limit || 20, bound to LIMIT ?
DbLimitOf(options) ==
    IF options.hasLimit /\ options.limit # 0 THEN options.limit ELSE DefaultLimit

\* the result lists searchNotes may return
DbSearchNotes(tbl, query, options) ==
    LET rows == {r \in Range(tbl.notes) : DbWhere(tbl, r, query, options)}
    IN  {[i \in 1..Min(DbLimitOf(options), Len(o)) |-> rowToNote(tbl, o[i])] :
            o \in DbOrderings(rows, ~Truthy(query))}

\* the result lists getNotesByTag may return
DbGetNotesByTag(tbl, tag) ==
    LET rows == {r \in Range(tbl.notes) :
                    \E nt \in Range(tbl.tags) : nt.path = r.path /\ DbTagMatches(nt.tag, tag)}
    IN  {[i \in 1..Len(o) |-> rowToNote(tbl, o[i])] : o \in DbOrderings(rows, TRUE)}

\* the result lists getRecentNotes may return (limit >= 0)
DbGetRecentNotes(tbl, limit) ==
    {[i \in 1..Min(limit, Len(o)) |-> rowToNote(tbl, o[i])] :
        o \in DbOrderings(Range(tbl.notes), TRUE)}

\* clear() without its first statement, DELETE FROM notes
DbClear_KeepNotes(tbl) == [EmptyDb EXCEPT !.notes = tbl.notes]

DbClear(tbl) == EmptyDb

---------------------------------------------------------------------------
(* The vault on disk: paths, glob, gray-matter *)

\* An absolute path is the sequence of its segments
DotDot == <<".", ".">>
Seg_vault == <<"v", "a", "u", "l", "t">>
Seg_other == <<"o", "t", "h", "e", "r">>
Seg_Work == <<"W", "o", "r", "k">>
Seg_Archive == <<"A", "r", "c", "h", "i", "v", "e">>
Seg_a == <<"a", ".", "m", "d">>
Seg_big == <<"b", "i", "g", ".", "m", "d">>
Seg_x == <<"x", ".", "m", "d">>
Seg_s == <<"s", ".", "m", "d">>

VaultPath == <<Seg_vault>>

RECURSIVE Resolve(_, _)
\* path.resolve(dir, segs): ".." climbs one directory
Resolve(dir, segs) ==
    IF segs = <<>> THEN dir
    ELSE IF Head(segs) = DotDot
    THEN Resolve(SubSeq(dir, 1, Len(dir) - 1), Tail(segs))
    ELSE Resolve(Append(dir, Head(segs)), Tail(segs))

IsPrefix(a, b) == Len(a) <= Len(b) /\ SubSeq(b, 1, Len(a)) = a

\* length of the longest common prefix of two absolute paths
CommonLen(a, b) ==
    CHOOSE n \in 0..Min(Len(a), Len(b)) :
        /\ SubSeq(a, 1, n) = SubSeq(b, 1, n)
        /\ \A m \in (n + 1)..Min(Len(a), Len(b)) : SubSeq(a, 1, m) # SubSeq(b, 1, m)

\* path.relative(from, to) of two absolute paths, as segments
Relative(from, to) ==
    [i \in 1..(Len(from) - CommonLen(from, to)) |-> DotDot]
        \o SubSeq(to, CommonLen(from, to) + 1, Len(to))

RECURSIVE JoinSegs(_)
\* the segments joined by "/"
JoinSegs(segs) ==
    IF segs = <<>> THEN <<>>
    ELSE IF Len(segs) = 1 THEN segs[1]
    ELSE segs[1] \o <<"/">> \o JoinSegs(Tail(segs))

\* basename(filePath, '.md')
Basename(path) ==
    LET name == path[Len(path)]
    IN  IF EndsWith(name, <<".", "m", "d">>) THEN SubSeq(name, 1, Len(name) - 3) ELSE name

\* A glob pattern <dir>/**/*.md (deep) or <dir>/*.md, dir relative to cwd
GlobPattern(dir, deep) == [dir |-> dir, deep |-> deep]
G_all == GlobPattern(<<>>, TRUE)
G_Work == GlobPattern(<<Seg_Work>>, TRUE)
G_outside == GlobPattern(<<DotDot, Seg_other>>, FALSE)
G_Archive == GlobPattern(<<Seg_Archive>>, TRUE)

GlobMatches(pattern, cwd, path) ==
    LET dir == Resolve(cwd, pattern.dir)
    IN  /\ IsPrefix(dir, path) /\ Len(path) > Len(dir)
        /\ pattern.deep \/ Len(path) = Len(dir) + 1
        /\ EndsWith(path[Len(path)], <<".", "m", "d">>)

\* the sample paths in the order a directory walk lists them
WalkOrder ==
    <<VaultPath \o <<Seg_Work, Seg_a>>, VaultPath \o <<Seg_Work, Seg_big>>,
      VaultPath \o <<Seg_Archive, Seg_x>>, <<Seg_other, Seg_s>>>>

InScanOrder(paths) == SelectSeqBy(WalkOrder, paths)

\* glob(pattern, {cwd, absolute: true, ignore})
glob(pattern, cwd, ignore, onDisk) ==
    InScanOrder({f.path : f \in {g \in onDisk :
        /\ GlobMatches(pattern, cwd, g.path)
        /\ \A x \in ignore : ~GlobMatches(x, cwd, g.path)}})

RECURSIVE ScanAll(_, _, _, _)
\* for (const pattern of indexPatterns) files.push(...matches)
ScanAll(patterns, cwd, ignore, onDisk) ==
    IF patterns = <<>> THEN <<>>
    ELSE glob(Head(patterns), cwd, ignore, onDisk)
             \o ScanAll(Tail(patterns), cwd, ignore, onDisk)

---------------------------------------------------------------------------
(* Files and their parsing *)

\* a YAML value of the header: absent, a string, a Date (an unquoted date) or a list
Absent == [kind |-> "undefined", v |-> <<>>]
ListVal(l) == [kind |-> "list", v |-> l]

\* what matter(content) yields as `data`: the six known keys and the rest
Header(created, modified, tags, type, status, category, rest) ==
    [created |-> created, modified |-> modified, tags |-> tags, type |-> type,
     status |-> status, category |-> category, rest |-> rest]

NoHeader == Header(Absent, Absent, Absent, Absent, Absent, Absent, {})
FullHeader ==
    Header(StrVal(D_0110), StrVal(D_0115), ListVal(<<T_work>>), StrVal(E_project),
           StrVal(E_completed), StrVal(E_work), {<<"owner", StrVal(T_work)>>})
\* type: bogus, status: work, category: 7, tags: work, modified: 2025-01-12 (unquoted)
BogusHeader ==
    Header(Absent, DateVal(D_0112), StrVal(T_work), StrVal(<<"b", "o", "g", "u", "s">>),
           StrVal(E_work), [kind |-> "number", v |-> <<"7">>], {<<"Type", StrVal(E_task)>>})
RepeatedTagHeader ==
    Header(Absent, Absent, ListVal(<<T_work, T_work>>), Absent, Absent, Absent, {})

\* the contents a file can have: unreadable (readFile rejects), corrupt (the
\* YAML of the header does not parse: matter throws), or a header and a body
Unreadable == [readable |-> FALSE, parses |-> FALSE, data |-> NoHeader, body |-> <<>>]
Corrupt == [readable |-> TRUE, parses |-> FALSE, data |-> NoHeader, body |-> <<>>]
Parsing(data, body) == [readable |-> TRUE, parses |-> TRUE, data |-> data, body |-> body]

Contents ==
    {Unreadable, Corrupt, Parsing(NoHeader, S_PlanContent),
     Parsing(FullHeader, S_OriginalContent), Parsing(BogusHeader, S_UpdatedContent),
     Parsing(RepeatedTagHeader, S_PlanContent)}

MaxFileSize == 100
FileSizes == {MaxFileSize, MaxFileSize + 1}

File(path, size, content) == [path |-> path, size |-> size, content |-> content]

isValidType(value) ==
    value.kind = "string" /\ value.v \in {E_note, E_project, E_task, E_daily, E_meeting}
isValidStatus(value) ==
    value.kind = "string" /\ value.v \in {E_active, E_archived, E_idea, E_completed}
isValidCategory(value) ==
    value.kind = "string" /\ value.v \in {E_work, E_personal, E_knowledge, E_life, E_dailies}

ExcerptLength == 200

\* createExcerpt(content) of a one-line text without markup
createExcerpt(content) ==
    IF Len(content) > ExcerptLength
    THEN SubSeq(content, 1, ExcerptLength) \o <<".", ".", ".">>
    ELSE content

\* BuildFrontmatter spreading the whole of `data` after the validated fields
BuildFrontmatter_SpreadData(data) ==
    Frontmatter(IF data.created.kind = "string" THEN data.created.v ELSE EmptyStr,
                IF data.modified.kind = "string" THEN data.modified.v ELSE EmptyStr,
                IF data.tags.kind = "list" THEN data.tags.v ELSE <<>>,
                IF data.type.kind # "undefined" THEN data.type.v
                ELSE E_note,
                IF data.status.kind # "undefined" THEN data.status.v
                ELSE E_active,
                IF data.category.kind # "undefined" THEN data.category.v
                ELSE E_personal,
                data.rest)

\* const { created, modified, tags, type, status, category, ...rest } = data;
\* the validated fields, then ...rest (which holds none of the six keys)
BuildFrontmatter(data) ==
    Frontmatter(IF data.created.kind = "string" THEN data.created.v ELSE EmptyStr,
                IF data.modified.kind = "string" THEN data.modified.v ELSE EmptyStr,
                IF data.tags.kind = "list" THEN data.tags.v ELSE <<>>,
                IF isValidType(data.type) THEN data.type.v ELSE E_note,
                IF isValidStatus(data.status) THEN data.status.v ELSE E_active,
                IF isValidCategory(data.category) THEN data.category.v ELSE E_personal,
                data.rest)

\* the note indexNotes builds from a file it has read and parsed
NoteOfFile(file, root) ==
    Note(JoinSegs(Relative(root, file.path)), Basename(file.path), file.content.body,
         createExcerpt(file.content.body), BuildFrontmatter(file.content.data))

\* what a callback of indexNotes returns for a skipped or failed file
NoNote == Note(<<>>, <<>>, <<>>, Null, Frontmatter(Null, Null, <<>>, Null, Null, Null, {}))

---------------------------------------------------------------------------
(* Queries: a free text and the SearchOptions; Undefined / <<>> / FALSE /   *)
(* hasLimit = FALSE stand for an option that is not supplied               *)

NoQuery ==
    [text |-> EmptyStr, tags |-> <<>>, path |-> Undefined, type |-> Undefined,
     status |-> Undefined, category |-> Undefined, dateFrom |-> Undefined,
     dateTo |-> Undefined, includeArchive |-> FALSE, hasLimit |-> FALSE, limit |-> 0]

TagSettings ==
    {[NoQuery EXCEPT !.tags = ts] :
        ts \in {<<T_work>>, <<T_Work>>, <<T_workPuppet>>, <<T_homework>>, <<T_a_b>>,
                <<T_personal>>, <<T_homework, T_personal>>}}
PathSettings ==
    {[NoQuery EXCEPT !.path = pp] : pp \in {PP_WorkRec, PP_work_plan, PP_WORK, PP_sub}}
EnumSettings ==
    {[NoQuery EXCEPT !.type = E_note], [NoQuery EXCEPT !.type = E_project],
     [NoQuery EXCEPT !.status = E_active], [NoQuery EXCEPT !.category = E_work]}
QueryDates == {D_0110, D_0112, D_0115}
DateFromSettings == {[NoQuery EXCEPT !.dateFrom = d] : d \in QueryDates}
DateToSettings == {[NoQuery EXCEPT !.dateTo = d] : d \in QueryDates}
ArchiveSettings == {[NoQuery EXCEPT !.includeArchive = TRUE]}
QueryLimits == {0, 1, 2}
LimitSettings == {[NoQuery EXCEPT !.hasLimit = TRUE, !.limit = l] : l \in QueryLimits}
QueryWords == {W_original, W_updated, W_plan}
TextSettings == {[NoQuery EXCEPT !.text = w] : w \in QueryWords}

FilterSettings ==
    TagSettings \cup PathSettings \cup EnumSettings \cup DateFromSettings \cup DateToSettings

\* the query that supplies what q1 supplies and what q2 supplies (q1 first)
Combine(q1, q2) ==
    [text |-> IF Truthy(q1.text) THEN q1.text ELSE q2.text,
     tags |-> IF Len(q1.tags) > 0 THEN q1.tags ELSE q2.tags,
     path |-> IF Truthy(q1.path) THEN q1.path ELSE q2.path,
     type |-> IF Truthy(q1.type) THEN q1.type ELSE q2.type,
     status |-> IF Truthy(q1.status) THEN q1.status ELSE q2.status,
     category |-> IF Truthy(q1.category) THEN q1.category ELSE q2.category,
     dateFrom |-> IF Truthy(q1.dateFrom) THEN q1.dateFrom ELSE q2.dateFrom,
     dateTo |-> IF Truthy(q1.dateTo) THEN q1.dateTo ELSE q2.dateTo,
     includeArchive |-> q1.includeArchive \/ q2.includeArchive,
     hasLimit |-> q1.hasLimit \/ q2.hasLimit,
     limit |-> IF q1.hasLimit THEN q1.limit ELSE q2.limit]

TagsQ(ts) == [NoQuery EXCEPT !.tags = ts]
TypeQ(e) == [NoQuery EXCEPT !.type = e]
TextQ(w) == [NoQuery EXCEPT !.text = w]

\* the queries searchNotes is called with
Queries ==
    {NoQuery} \cup FilterSettings \cup ArchiveSettings \cup LimitSettings \cup TextSettings
    \cup {Combine(a, f) : a \in ArchiveSettings,
             f \in {TagsQ(<<T_personal>>), TypeQ(E_note), TextQ(W_plan),
                    [NoQuery EXCEPT !.dateTo = D_0110]}}
    \cup {Combine(w, f) : w \in {TextQ(W_original), TextQ(W_updated)},
                          f \in {TagsQ(<<T_work>>), TypeQ(E_project)}}
    \cup {Combine(l, f) : l \in LimitSettings, f \in ArchiveSettings \cup {TagsQ(<<T_work>>)}}
    \cup {Combine([NoQuery EXCEPT !.dateFrom = d[1]], [NoQuery EXCEPT !.dateTo = d[2]]) :
             d \in {<<D_0110, D_0115>>, <<D_0112, D_0115>>, <<D_0110, D_0110>>,
                    <<D_0115, D_0110>>}}
    \cup {Combine(f, g) : f \in {TagsQ(<<T_work>>), TagsQ(<<T_Work>>)},
                          g \in {TypeQ(E_project), TypeQ(E_note)}}
    \cup {Combine(TagsQ(<<T_work>>),
                  Combine(TypeQ(E_project), [NoQuery EXCEPT !.status = E_active]))}

\* the limits getRecentNotes is called with
RecentLimits == {1, 2, 3}

\* the paths getNote is called with
P_missing == <<"n", "o", "n", "e", ".", "m", "d">>  \* "none.md"
LookupPaths == {P_WorkA, P_WorkSubB, P_ArchiveX, P_missing}

\* the tags getNotesByTag is called with
QueryTags == {T_work, T_Work, T_workPuppet, T_homework, T_a_b, T_personal}

---------------------------------------------------------------------------
(* The tool calls of the server: requests, responses, path handling *)

MaxSearchResults == 100     \* the default of --max-search-results
MinSearchResults == 1       \* the least value validateConfig accepts

\* a path argument: a string, as its segments and whether it starts with "/",
\* or a value that is no string
PathArg(kind, absolute, segs) == [kind |-> kind, absolute |-> absolute, segs |-> segs]
Rel(segs) == PathArg("string", FALSE, segs)
Abs(segs) == PathArg("string", TRUE, segs)
NotAString == PathArg("number", FALSE, <<>>)

Dot == <<".">>
Seg_vault2 == <<"v", "a", "u", "l", "t", "2">>

\* the string a path argument stands for
PathString(p) ==
    IF p.absolute THEN <<"/">> \o JoinSegs(p.segs) ELSE JoinSegs(p.segs)

RECURSIVE NormalizeSegs(_, _, _)
\* path.normalize: "." is dropped, ".." removes the segment before it, is
\* dropped at the root of an absolute path and is kept in front of a relative one
NormalizeSegs(done, rest, absolute) ==
    IF rest = <<>> THEN done
    ELSE IF Head(rest) = Dot THEN NormalizeSegs(done, Tail(rest), absolute)
    ELSE IF Head(rest) # DotDot
    THEN NormalizeSegs(Append(done, Head(rest)), Tail(rest), absolute)
    ELSE IF done # <<>> /\ done[Len(done)] # DotDot
    THEN NormalizeSegs(SubSeq(done, 1, Len(done) - 1), Tail(rest), absolute)
    ELSE IF absolute THEN NormalizeSegs(done, Tail(rest), absolute)
    ELSE NormalizeSegs(Append(done, DotDot), Tail(rest), absolute)

normalize(p) == [p EXCEPT !.segs = NormalizeSegs(<<>>, p.segs, p.absolute)]

RECURSIVE DropLeadingDotDots(_)
DropLeadingDotDots(segs) ==
    IF segs # <<>> /\ Head(segs) = DotDot THEN DropLeadingDotDots(Tail(segs)) ELSE segs

\* .replace(/^(\.\.(\/|\\|$))+/, ''): the regex is anchored at the start of
\* the string, so it matches nothing in a path that starts with "/"
StripTraversal(p) ==
    IF p.absolute THEN p ELSE [p EXCEPT !.segs = DropLeadingDotDots(p.segs)]

\* const normalizedPath = normalize(requestedPath).replace(...)
NormalizedPath(requestedPath) == StripTraversal(normalize(requestedPath))

\* path.resolve(vaultPath, p): an absolute p replaces vaultPath
ResolveIn(root, p) ==
    IF p.absolute THEN NormalizeSegs(<<>>, p.segs, TRUE) ELSE Resolve(root, p.segs)

AbsoluteString(segs) == <<"/">> \o JoinSegs(segs)

\* fullPath.startsWith(vaultConfig.vaultPath): a test on the characters
startsWith(str, prefix) == IsPrefix(prefix, str)

Request(tool, args, path) == [tool |-> tool, args |-> args, path |-> path]
NoRequest == Request("none", NoQuery, NotAString)

createErrorResponse(message) == [isError |-> TRUE, text |-> message]
createSuccessResponse(data) == [isError |-> FALSE, text |-> data]
NoResponse == createSuccessResponse("none")

AccessDenied == createErrorResponse("Access denied. Path is outside vault directory")

VaultCall(op, path) == [op |-> op, path |-> path]

\* the checks of the search_notes case, in order; "ok" when all pass
SearchNotesCheck(args, offset) ==
    IF args.hasLimit /\ (args.limit < 1 \/ args.limit > cfg.maxSearchResults)
    THEN "Limit must be between 1 and maxSearchResults"
    ELSE IF args.type # Undefined /\ ~isValidType(StrVal(args.type))
    THEN "Invalid type"
    ELSE IF args.status # Undefined /\ ~isValidStatus(StrVal(args.status))
    THEN "Invalid status"
    ELSE IF args.category # Undefined /\ ~isValidCategory(StrVal(args.category))
    THEN "Invalid category"
    ELSE IF Truthy(args.dateFrom) /\ parseDate(args.dateFrom, offset) = NoDate
    THEN "dateFrom must be in YYYY-MM-DD format"
    ELSE IF Truthy(args.dateTo) /\ parseDate(args.dateTo, offset) = NoDate
    THEN "dateTo must be in YYYY-MM-DD format"
    ELSE "ok"

\* the checks of the get_note case on the requested path
GetNoteCheck(requestedPath) ==
    IF requestedPath.kind # "string" \/ PathString(requestedPath) = EmptyStr
    THEN "Path parameter is required and must be a string"
    ELSE IF ~startsWith(AbsoluteString(ResolveIn(VaultPath, NormalizedPath(requestedPath))),
                        AbsoluteString(VaultPath))
    THEN "Access denied. Path is outside vault directory"
    ELSE "ok"

\* dates no calendar has and a date in another notation
D_0230 == <<"2", "0", "2", "5", "-", "0", "2", "-", "3", "0">>  \* "2025-02-30"
D_slash == <<"2", "0", "2", "5", "/", "0", "1", "/", "1", "2">>  \* "2025/01/12"
UnparseableDates == {D_0230, D_slash}

E_bogus == <<"b", "o", "g", "u", "s">>

\* the searches with a dateFrom or dateTo that is no date
BadDateQueries ==
    {[NoQuery EXCEPT !.dateFrom = d] : d \in UnparseableDates}
    \cup {[NoQuery EXCEPT !.dateTo = d] : d \in UnparseableDates}
    \cup {[NoQuery EXCEPT !.dateFrom = D_0110, !.dateTo = D_0230],
          [NoQuery EXCEPT !.text = W_plan, !.dateFrom = D_slash]}

\* the arguments search_notes and searchNotes are called with by a client
ServerQueries ==
    BadDateQueries \cup DateFromSettings \cup DateToSettings \cup LimitSettings
    \cup {NoQuery, TypeQ(E_note), TypeQ(E_bogus), [NoQuery EXCEPT !.status = E_bogus],
          [NoQuery EXCEPT !.category = E_bogus], TextQ(W_plan)}

\* the paths get_note is called with
RequestPaths ==
    {Rel(<<Seg_Work, Seg_a>>), Rel(<<Seg_Archive, Seg_x>>), Rel(<<Seg_Work, Dot, Seg_a>>),
     Rel(<<DotDot, Seg_other, Seg_s>>), Rel(<<Seg_Work, DotDot, DotDot, Seg_other, Seg_s>>),
     Rel(<<DotDot>>), Rel(<<DotDot, Seg_vault2, Seg_x>>),
     Abs(<<Seg_other, Seg_s>>), Abs(<<Seg_vault2, Seg_x>>),
     Abs(<<Seg_vault, Seg_Work, Seg_a>>), Abs(<<Seg_vault, DotDot, Seg_other, Seg_s>>),
     Rel(<<>>), NotAString}

---------------------------------------------------------------------------
(* The vaults and configurations of the indexing passes *)

MaxPasses == 2      \* initialize() calls per run

Config(useMemory, indexPatterns) ==
    [useMemory |-> useMemory, indexPatterns |-> indexPatterns,
     excludePatterns |-> {G_Archive}, maxFileSize |-> MaxFileSize,
     maxSearchResults |-> MaxSearchResults]

\* the index pattern lists: one pattern, two overlapping ones, one that leaves
\* the vault directory
PatternLists == {<<G_all>>, <<G_Work, G_all>>, <<G_Work, G_outside>>}

Configs == {Config(m, ps) : m \in BOOLEAN, ps \in PatternLists}

\* <vault>/Work/a.md of any size and content, beside three fixed files
Vaults ==
    {{File(VaultPath \o <<Seg_Work, Seg_a>>, size, content),
      File(VaultPath \o <<Seg_Work, Seg_big>>, MaxFileSize, Parsing(FullHeader, S_Plan)),
      File(VaultPath \o <<Seg_Archive, Seg_x>>, MaxFileSize, Parsing(NoHeader, S_Plan)),
      File(<<Seg_other, Seg_s>>, MaxFileSize, Parsing(NoHeader, S_Plan))} :
        size \in FileSizes, content \in Contents}

---------------------------------------------------------------------------
(* The two stores, driven by the same calls *)

Init ==
    /\ tz \in HostOffsets
    /\ memNotes = <<>>
    /\ memFuse = FuseCleared
    /\ db = EmptyDb
    /\ latest = {}
    /\ ops = 0
    /\ lastOp = "initialize"
    /\ lastArg = NoQuery
    /\ memResult = <<>>
    /\ dbResult = <<>>
    /\ disk = {}
    /\ cfg = Config(FALSE, <<G_all>>)
    /\ phase = "idle"
    /\ files = <<>>
    /\ pc = <<>>
    /\ parsed = <<>>
    /\ indexErrors = <<>>
    /\ readLog = {}
    /\ passes = 0
    /\ request = NoRequest
    /\ response = NoResponse
    /\ vaultCalls = <<>>
    /\ dateString = EmptyStr
    /\ parsedDate = NotParsed
    /\ txn = NoTxn
    /\ rebuilds = 0
    /\ proc = "starting"
    /\ exitCode = NoExit
    /\ steps = <<>>

\* a query has produced its result and the caller has not taken it yet; the
\* caller awaits each call before it makes the next one
ResultPending ==
    lastOp \in {"searchNotes", "getNotesByTag", "getRecentNotes", "search_notes", "get_note",
                "summarize_notes", "getNote", "getAllNotes"}

\* the record of the most recent upsert of each path
Record(hist, note) == {n \in hist : n.path # note.path} \cup {note}

RECURSIVE RecordAll(_, _)
RecordAll(hist, batch) ==
    IF batch = <<>> THEN hist
    ELSE RecordAll(Record(hist, Head(batch)), Tail(batch))

upsertNote(note) ==
    /\ ~ResultPending
    /\ ops < MaxOps
    /\ memNotes' = MapSet(memNotes, note)
    /\ memFuse' = rebuildSearchIndex(memNotes')
    /\ rebuilds' = RebuildCalls(UpsertNoteCalls(note))
    /\ db' = IF DbConstraintFails(note) THEN db ELSE DbUpsertOne(db, note)
    /\ latest' = Record(latest, note)
    /\ ops' = ops + 1
    /\ lastOp' = "upsertNote"
    /\ lastArg' = NoQuery
    /\ memResult' = <<>>
    /\ dbResult' = <<>>
    /\ UNCHANGED <<tz, indexer, server, dates, transaction, process, steps>>

upsertNotes(batch) ==
    /\ ~ResultPending
    /\ ops < MaxOps
    /\ memNotes' = MapSetAll(memNotes, batch)
    /\ memFuse' = rebuildSearchIndex(memNotes')
    /\ rebuilds' = RebuildCalls(UpsertNotesCalls(batch))
    /\ db' = DbTransaction(db, batch)
    /\ latest' = RecordAll(latest, batch)
    /\ ops' = ops + 1
    /\ lastOp' = "upsertNotes"
    /\ lastArg' = NoQuery
    /\ memResult' = <<>>
    /\ dbResult' = <<>>
    /\ UNCHANGED <<tz, indexer, server, dates, transaction, process, steps>>

clear ==
    /\ ~ResultPending
    /\ ops < MaxOps
    /\ memNotes' = <<>>
    /\ memFuse' = FuseCleared
    /\ rebuilds' = RebuildCalls(ClearCalls)
    /\ db' = DbClear(db)
    /\ latest' = {}
    /\ ops' = ops + 1
    /\ lastOp' = "clear"
    /\ lastArg' = NoQuery
    /\ memResult' = <<>>
    /\ dbResult' = <<>>
    /\ UNCHANGED <<tz, indexer, server, dates, transaction, process, steps>>

searchNotes(q) ==
    /\ ~ResultPending
    /\ lastOp' = "searchNotes"
    /\ lastArg' = q
    /\ memResult' = MemSearchNotes(memNotes, memFuse, q.text, q, tz)
    /\ dbResult' \in DbSearchNotes(db, q.text, q)
    /\ UNCHANGED <<tz, store, indexer, server, dates, transaction, rebuilds, process, steps>>

getNotesByTag(tag) ==
    /\ ~ResultPending
    /\ lastOp' = "getNotesByTag"
    /\ lastArg' = [NoQuery EXCEPT !.tags = <<tag>>]
    /\ memResult' = MemGetNotesByTag(memNotes, tag, tz)
    /\ dbResult' \in DbGetNotesByTag(db, tag)
    /\ UNCHANGED <<tz, store, indexer, server, dates, transaction, rebuilds, process, steps>>

getRecentNotes(limit) ==
    /\ ~ResultPending
    /\ lastOp' = "getRecentNotes"
    /\ lastArg' = [NoQuery EXCEPT !.hasLimit = TRUE, !.limit = limit]
    /\ memResult' = MemGetRecentNotes(memNotes, limit, tz)
    /\ dbResult' \in DbGetRecentNotes(db, limit)
    /\ UNCHANGED <<tz, store, indexer, server, dates, transaction, rebuilds, process, steps>>

\* the caller takes the result of its query
\* what vault.getNote returned, as a list: empty for null
MemGetNoteList(notes, path) ==
    IF path \in PathsOf(notes) THEN <<MemGetNote(notes, path)>> ELSE <<>>
DbGetNoteList(tbl, path) ==
    IF \E r \in Range(tbl.notes) : r.path = path THEN <<DbGetNote(tbl, path)>> ELSE <<>>

\* rowToNote reads the tags with SELECT tag FROM note_tags WHERE note_path = ?,
\* which has no ORDER BY: the rows may come in any order
DbGetNoteOutcomes(tbl, path) ==
    IF DbGetNoteList(tbl, path) = <<>> THEN {<<>>}
    ELSE {<<[DbGetNote(tbl, path) EXCEPT !.frontmatter.tags = tags]>> :
             tags \in SeqPermutations(Range(DbGetNote(tbl, path).frontmatter.tags))}

\* getNote(path) on both stores; the result is a list, empty for null
getNote(path) ==
    /\ ~ResultPending
    /\ lastOp' = "getNote"
    /\ lastArg' = [NoQuery EXCEPT !.path = path]
    /\ memResult' = MemGetNoteList(memNotes, path)
    /\ dbResult' \in DbGetNoteOutcomes(db, path)
    /\ UNCHANGED <<tz, store, indexer, server, dates, transaction, rebuilds, process, steps>>

getAllNotes ==
    /\ ~ResultPending
    /\ lastOp' = "getAllNotes"
    /\ lastArg' = NoQuery
    /\ memResult' = MemGetAllNotes(memNotes)
    /\ dbResult' = DbGetAllNotes(db)
    /\ UNCHANGED <<tz, store, indexer, server, dates, transaction, rebuilds, process, steps>>

return ==
    /\ ResultPending
    /\ lastOp \notin {"search_notes", "get_note", "summarize_notes"}
    /\ lastOp' = "return"
    /\ lastArg' = NoQuery
    /\ memResult' = <<>>
    /\ dbResult' = <<>>
    /\ UNCHANGED <<tz, store, indexer, server, dates, transaction, rebuilds, process, steps>>

Next ==
    \/ \E note \in SampleNotes : upsertNote(note)
    \/ \E batch \in Batches : upsertNotes(batch)
    \/ clear
    \/ \E q \in Queries : searchNotes(q)
    \/ \E tag \in QueryTags : getNotesByTag(tag)
    \/ \E limit \in RecentLimits : getRecentNotes(limit)
    \/ \E path \in LookupPaths : getNote(path)
    \/ getAllNotes
    \/ return

Spec == Init /\ [][Next]_vars

---------------------------------------------------------------------------
(* A store that already holds notes and is then cleared, written and read *)

\* the batches the store was filled with: two notes of different paths
ClearVaults == {<<NoteA1, NoteB1>>, <<NoteA2, NoteX1>>, <<NoteB2, NoteP1>>}

\* the searches made around a clear
ClearQueries ==
    {NoQuery, TextQ(W_original), TextQ(W_plan), TagsQ(<<T_work>>),
     Combine(TextQ(W_updated), [NoQuery EXCEPT !.includeArchive = TRUE])}

\* both stores after upsertNotes(batch) on the empty store
ClearInit ==
    /\ tz \in HostOffsets
    /\ \E batch \in ClearVaults :
           /\ memNotes = MapSetAll(<<>>, batch)
           /\ memFuse = rebuildSearchIndex(MapSetAll(<<>>, batch))
           /\ db = DbTransaction(EmptyDb, batch)
           /\ latest = RecordAll({}, batch)
    /\ ops = 0
    /\ lastOp = "upsertNotes"
    /\ lastArg = NoQuery
    /\ memResult = <<>>
    /\ dbResult = <<>>
    /\ disk = {}
    /\ cfg = Config(FALSE, <<G_all>>)
    /\ phase = "idle"
    /\ files = <<>>
    /\ pc = <<>>
    /\ parsed = <<>>
    /\ indexErrors = <<>>
    /\ readLog = {}
    /\ passes = 0
    /\ request = NoRequest
    /\ response = NoResponse
    /\ vaultCalls = <<>>
    /\ dateString = EmptyStr
    /\ parsedDate = NotParsed
    /\ txn = NoTxn
    /\ rebuilds = 1
    /\ proc = "starting"
    /\ exitCode = NoExit
    /\ steps = <<>>

ClearNext ==
    \/ clear
    \/ \E note \in SampleNotes : upsertNote(note)
    \/ \E q \in ClearQueries : searchNotes(q)
    \/ \E tag \in QueryTags : getNotesByTag(tag)
    \/ \E limit \in RecentLimits : getRecentNotes(limit)
    \/ \E path \in LookupPaths : getNote(path)
    \/ getAllNotes
    \/ return

ClearSpec == ClearInit /\ [][ClearNext]_vars

---------------------------------------------------------------------------
(* parseDate on its own: the host's offset and the strings are the inputs *)

ParseOffsets == {-8, -5, 0, 1, 9}   \* hours east of UTC

DateYears == {2024, 2025}
DateMonths == {0, 1, 2, 4, 10, 12, 13}
DateDays == {0, 1, 4, 28, 29, 30, 31, 32}

FourDigits(y) == TwoDigits(y \div 100) \o TwoDigits(y % 100)

Dashed(a, b, c) == a \o <<"-">> \o b \o <<"-">> \o c

D_slashes == <<"2", "0", "2", "5", "/", "1", "0", "/", "0", "4">>   \* '2025/10/04'
D_dmy == <<"1", "0", "-", "0", "4", "-", "2", "0", "2", "5">>       \* '10-04-2025'
D_short == <<"2", "0", "2", "5", "-", "1", "-", "4">>               \* '2025-1-4'

DateStrings ==
    {Dashed(FourDigits(y), TwoDigits(m), TwoDigits(d)) :
        y \in DateYears, m \in DateMonths, d \in DateDays}
    \cup {EmptyStr, D_slashes, D_dmy, D_short, D_0112 \o <<"T", "0", "9", ":", "3", "0">>}

ParseInit ==
    /\ tz \in ParseOffsets
    /\ memNotes = <<>>
    /\ memFuse = FuseCleared
    /\ db = EmptyDb
    /\ latest = {}
    /\ ops = 0
    /\ lastOp = "initialize"
    /\ lastArg = NoQuery
    /\ memResult = <<>>
    /\ dbResult = <<>>
    /\ disk = {}
    /\ cfg = Config(FALSE, <<G_all>>)
    /\ phase = "idle"
    /\ files = <<>>
    /\ pc = <<>>
    /\ parsed = <<>>
    /\ indexErrors = <<>>
    /\ readLog = {}
    /\ passes = 0
    /\ request = NoRequest
    /\ response = NoResponse
    /\ vaultCalls = <<>>
    /\ dateString = EmptyStr
    /\ parsedDate = NotParsed
    /\ txn = NoTxn
    /\ rebuilds = 0
    /\ proc = "starting"
    /\ exitCode = NoExit
    /\ steps = <<>>

\* A caller hands a string to parseDate and keeps what it returned
callParseDate(s) ==
    /\ dateString' = s
    /\ parsedDate' = parseDate(s, tz)
    /\ UNCHANGED <<tz, store, lastOp, lastArg, memResult, dbResult, indexer, server, transaction, rebuilds, process, steps>>

ParseNext == \E s \in DateStrings : callParseDate(s)

ParseSpec == ParseInit /\ [][ParseNext]_vars

---------------------------------------------------------------------------
(* The upsert transaction statement by statement, with readers in between *)

MaxUnits == 2       \* upsertNote / upsertNotes calls per run

\* a note that repeats a tag: its second INSERT INTO note_tags fails
NoteB3 == Note(P_WorkSubB, S_Plan, S_UpdatedContent, Undefined,
               Frontmatter(D_0112, D_0115, <<T_work, T_personal, T_work>>, E_note,
                           E_active, E_personal, {}))

TxnNotes == {NoteA1, NoteA2, NoteB3}

TxnBatches == {<<NoteA1, NoteB1>>, <<NoteA2, NoteB3>>, <<NoteB1, NoteA1, NoteA2>>}

TxnInit ==
    /\ tz = 0
    /\ memNotes = <<>>
    /\ memFuse = FuseCleared
    /\ db = EmptyDb
    /\ latest = {}
    /\ ops = 0
    /\ lastOp = "initialize"
    /\ lastArg = NoQuery
    /\ memResult = <<>>
    /\ dbResult = <<>>
    /\ disk = {}
    /\ cfg = Config(FALSE, <<G_all>>)
    /\ phase = "idle"
    /\ files = <<>>
    /\ pc = <<>>
    /\ parsed = <<>>
    /\ indexErrors = <<>>
    /\ readLog = {}
    /\ passes = 0
    /\ request = NoRequest
    /\ response = NoResponse
    /\ vaultCalls = <<>>
    /\ dateString = EmptyStr
    /\ parsedDate = NotParsed
    /\ txn = NoTxn
    /\ rebuilds = 0
    /\ proc = "starting"
    /\ exitCode = NoExit
    /\ steps = <<>>

\* const transaction = this.db.transaction(() => {...}); transaction(): BEGIN
begin(unit) ==
    /\ ~txn.open
    /\ ops < MaxUnits
    /\ txn' = [open |-> TRUE, unit |-> unit, before |-> db, work |-> db,
               todo |-> StatementsOfAll(unit), failed |-> FALSE]
    /\ ops' = ops + 1
    /\ UNCHANGED <<tz, memNotes, memFuse, db, latest, lastOp, lastArg, memResult,
                   dbResult, indexer, server, dates, rebuilds, process, steps>>

\* DatabaseStorage.upsertNote(note) starts its transaction
beginUpsertNote(note) == begin(<<note>>)

\* DatabaseStorage.upsertNotes(notes) starts its transaction
beginUpsertNotes(batch) == begin(batch)

\* the next statement of the transaction function runs; one that throws rolls
\* the transaction back
runStatement ==
    /\ txn.open
    /\ txn.todo # <<>>
    /\ IF StatementFails(txn.work, Head(txn.todo))
       THEN /\ txn' = [txn EXCEPT !.open = FALSE, !.failed = TRUE, !.todo = <<>>]
            /\ db' = db
       ELSE /\ txn' = [txn EXCEPT !.work = RunStatement(@, Head(txn.todo)),
                                  !.todo = Tail(@)]
            /\ db' = DuringTransaction(db, txn'.work)
    /\ UNCHANGED <<tz, memNotes, memFuse, latest, ops, lastOp, lastArg, memResult,
                   dbResult, indexer, server, dates, rebuilds, process, steps>>

\* the transaction function returned: COMMIT
commit ==
    /\ txn.open
    /\ txn.todo = <<>>
    /\ txn' = [txn EXCEPT !.open = FALSE]
    /\ db' = txn.work
    /\ UNCHANGED <<tz, memNotes, memFuse, latest, ops, lastOp, lastArg, memResult,
                   dbResult, indexer, server, dates, rebuilds, process, steps>>

TxnNext ==
    \/ \E note \in TxnNotes : beginUpsertNote(note)
    \/ \E batch \in TxnBatches : beginUpsertNotes(batch)
    \/ runStatement
    \/ commit
    \/ \E path \in {P_WorkA, P_WorkSubB} : getNote(path)
    \/ return

TxnSpec == TxnInit /\ [][TxnNext]_vars

---------------------------------------------------------------------------
(* ObsidianVault.initialize() and indexNotes() *)

IndexInit ==
    /\ tz = 0
    /\ memNotes = <<>>
    /\ memFuse = FuseCleared
    /\ db = EmptyDb
    /\ latest = {}
    /\ ops = 0
    /\ lastOp = "initialize"
    /\ lastArg = NoQuery
    /\ memResult = <<>>
    /\ dbResult = <<>>
    /\ disk \in Vaults
    /\ cfg \in Configs
    /\ phase = "idle"
    /\ files = <<>>
    /\ pc = <<>>
    /\ parsed = <<>>
    /\ indexErrors = <<>>
    /\ readLog = {}
    /\ passes = 0
    /\ request = NoRequest
    /\ response = NoResponse
    /\ vaultCalls = <<>>
    /\ dateString = EmptyStr
    /\ parsedDate = NotParsed
    /\ txn = NoTxn
    /\ rebuilds = 0
    /\ proc = "starting"
    /\ exitCode = NoExit
    /\ steps = <<>>

\* the file on disk at an absolute path
FileOnDisk(path) == CHOOSE f \in disk : f.path = path

IndexError(path, error) == [path |-> JoinSegs(path), error |-> error]

\* initialize() without `this.indexErrors = []`
initialize_KeepErrors ==
    /\ phase \in {"idle", "ready"}
    /\ passes < MaxPasses
    /\ passes' = passes + 1
    /\ indexErrors' = indexErrors
    /\ files' = ScanAll(cfg.indexPatterns, VaultPath, cfg.excludePatterns, disk)
    /\ pc' = [i \in 1..Len(files') |-> "stat"]
    /\ parsed' = [i \in 1..Len(files') |-> NoNote]
    /\ readLog' = {}
    /\ phase' = "indexing"
    /\ steps' = <<"storage.initialize">>
    /\ UNCHANGED <<disk, cfg, memNotes, memFuse, db, client, rebuilds>>

\* initialize() up to the first await of every callback of Promise.all: the
\* errors are reset, the storage is initialized (the tables of an existing
\* database file are kept), the patterns are scanned
initialize ==
    /\ phase \in {"idle", "ready"}
    /\ passes < MaxPasses
    /\ passes' = passes + 1
    /\ indexErrors' = <<>>
    /\ files' = ScanAll(cfg.indexPatterns, VaultPath, cfg.excludePatterns, disk)
    /\ pc' = [i \in 1..Len(files') |-> "stat"]
    /\ parsed' = [i \in 1..Len(files') |-> NoNote]
    /\ readLog' = {}
    /\ phase' = "indexing"
    /\ steps' = <<"storage.initialize">>
    /\ UNCHANGED <<disk, cfg, memNotes, memFuse, db, client, rebuilds>>

\* await stat(filePath) returns to the callback of candidate i: the size check
statReturns(i) ==
    /\ phase = "indexing"
    /\ pc[i] = "stat"
    /\ IF FileOnDisk(files[i]).size > cfg.maxFileSize
       THEN /\ indexErrors' = Append(indexErrors, IndexError(files[i], "File too large"))
            /\ pc' = [pc EXCEPT ![i] = "done"]
       ELSE /\ pc' = [pc EXCEPT ![i] = "read"]
            /\ UNCHANGED indexErrors
    /\ UNCHANGED <<disk, cfg, phase, files, parsed, readLog, passes>>
    /\ UNCHANGED <<memNotes, memFuse, db, client, rebuilds, steps>>

\* await readFile(filePath) returns to (or rejects in) the callback of
\* candidate i: matter(), the frontmatter defaults, the relative path; the
\* catch block records whatever was thrown
readReturns(i) ==
    /\ phase = "indexing"
    /\ pc[i] = "read"
    /\ pc' = [pc EXCEPT ![i] = "done"]
    /\ LET file == FileOnDisk(files[i])
       IN  IF ~file.content.readable
           THEN /\ indexErrors' = Append(indexErrors, IndexError(files[i], "EACCES"))
                /\ UNCHANGED <<parsed, readLog>>
           ELSE IF ~file.content.parses
           THEN /\ indexErrors' = Append(indexErrors, IndexError(files[i], "YAMLException"))
                /\ readLog' = readLog \cup {i}
                /\ UNCHANGED parsed
           ELSE /\ parsed' = [parsed EXCEPT ![i] = NoteOfFile(file, VaultPath)]
                /\ readLog' = readLog \cup {i}
                /\ UNCHANGED indexErrors
    /\ UNCHANGED <<disk, cfg, phase, files, passes>>
    /\ UNCHANGED <<memNotes, memFuse, db, client, rebuilds, steps>>

\* notesWithPossibleNulls.filter(n => n !== null)
IndexedNotes == SelectSeqBy(parsed, {n \in Range(parsed) : n # NoNote})

\* Promise.all has resolved: indexNotes returns and initialize() hands the
\* notes to storage.upsertNotes; it resolves, or raises what the storage threw
storeNotes ==
    /\ phase = "indexing"
    /\ \A i \in 1..Len(files) : pc[i] = "done"
    /\ IF cfg.useMemory
       THEN /\ memNotes' = MapSetAll(memNotes, IndexedNotes)
            /\ memFuse' = rebuildSearchIndex(memNotes')
            /\ rebuilds' = RebuildCalls(UpsertNotesCalls(IndexedNotes))
            /\ phase' = "ready"
            /\ steps' = steps \o <<"indexNotes", "upsertNotes">>
            /\ UNCHANGED db
       ELSE /\ db' = DbTransaction(db, IndexedNotes)
            /\ phase' = IF \E i \in 1..Len(IndexedNotes) : DbConstraintFails(IndexedNotes[i])
                        THEN "failed" ELSE "ready"
            /\ steps' = IF phase' = "ready" THEN steps \o <<"indexNotes", "upsertNotes">>
                         ELSE Append(steps, "indexNotes")
            /\ UNCHANGED <<memNotes, memFuse, rebuilds>>
    /\ UNCHANGED <<disk, cfg, files, pc, parsed, indexErrors, readLog, passes, client>>

\* between two passes (the vault object is idle again, or the server is
\* restarted on the same vault) a file grows beyond the size limit
growFile(file) ==
    /\ phase = "ready"
    /\ passes < MaxPasses
    /\ file \in disk
    /\ file.size <= cfg.maxFileSize
    /\ IsPrefix(VaultPath \o <<Seg_Work>>, file.path)
    /\ disk' = (disk \ {file}) \cup {[file EXCEPT !.size = cfg.maxFileSize + 1]}
    /\ phase' = "idle"
    /\ UNCHANGED <<cfg, files, pc, parsed, indexErrors, readLog, passes>>
    /\ UNCHANGED <<memNotes, memFuse, db, client, rebuilds, steps>>

IndexNext ==
    \/ initialize
    \/ \E i \in 1..Len(files) : statReturns(i)
    \/ \E i \in 1..Len(files) : readReturns(i)
    \/ storeNotes
    \/ \E file \in disk : growFile(file)

IndexSpec == IndexInit /\ [][IndexNext]_vars

---------------------------------------------------------------------------
(* The server: the CallTool handler over the vault, whose storage a client  *)
(* can also call directly                                                  *)

\* case 'search_notes': the validation, then vault.searchNotes(query, options)
search_notes(args) ==
    /\ ~ResultPending
    /\ request' = Request("search_notes", args, NotAString)
    /\ lastOp' = "search_notes"
    /\ lastArg' = args
    /\ IF SearchNotesCheck(args, tz) # "ok"
       THEN /\ response' = createErrorResponse(SearchNotesCheck(args, tz))
            /\ vaultCalls' = <<>>
            /\ memResult' = <<>>
            /\ dbResult' = <<>>
       ELSE /\ response' = createSuccessResponse("results")
            /\ vaultCalls' = <<VaultCall("searchNotes", args.text)>>
            /\ memResult' = MemSearchNotes(memNotes, memFuse, args.text, args, tz)
            /\ dbResult' \in DbSearchNotes(db, args.text, args)
    /\ UNCHANGED <<tz, store, indexer, dates, transaction, rebuilds, process, steps>>

\* if (!note) return createErrorResponse(`Note not found: ...`)
NoteResponse(found) ==
    IF found = <<>> THEN createErrorResponse("Note not found")
    ELSE createSuccessResponse("note")

\* case 'get_note': the path checks, then vault.getNote(normalizedPath)
get_note(requestedPath) ==
    /\ ~ResultPending
    /\ request' = Request("get_note", NoQuery, requestedPath)
    /\ lastOp' = "get_note"
    /\ lastArg' = NoQuery
    /\ IF GetNoteCheck(requestedPath) # "ok"
       THEN /\ response' = createErrorResponse(GetNoteCheck(requestedPath))
            /\ vaultCalls' = <<>>
            /\ memResult' = <<>>
            /\ dbResult' = <<>>
       ELSE LET path == PathString(NormalizedPath(requestedPath))
            IN  /\ vaultCalls' = <<VaultCall("getNote", path)>>
                /\ memResult' = MemGetNoteList(memNotes, path)
                /\ dbResult' = DbGetNoteList(db, path)
                /\ response' = NoteResponse(IF cfg.useMemory THEN memResult' ELSE dbResult')
    /\ UNCHANGED <<tz, store, indexer, dates, transaction, rebuilds, process, steps>>

\* the enum checks of the summarize_notes case; "ok" when all pass
SummarizeCheck(args) ==
    IF args.type # Undefined /\ ~isValidType(StrVal(args.type)) THEN "Invalid type"
    ELSE IF args.status # Undefined /\ ~isValidStatus(StrVal(args.status))
    THEN "Invalid status"
    ELSE IF args.category # Undefined /\ ~isValidCategory(StrVal(args.category))
    THEN "Invalid category"
    ELSE "ok"

\* const options = { tags, type, status, category }
SummarizeOptions(args) ==
    [NoQuery EXCEPT !.tags = args.tags, !.type = args.type, !.status = args.status,
                    !.category = args.category]

\* summary.byX: for each truthy value of the field, the number of notes with it
CountBy(notes, field(_)) ==
    [v \in {field(notes[i]) : i \in {k \in 1..Len(notes) : Truthy(field(notes[k]))}} |->
        Cardinality({i \in 1..Len(notes) : field(notes[i]) = v})]

TypeOf(n) == n.frontmatter.type
StatusOf(n) == n.frontmatter.status
CategoryOf(n) == n.frontmatter.category

RecentCount == 5

\* the summary the handler builds from what vault.searchNotes('', options) returned
Summary(notes) ==
    [total |-> Len(notes),
     byType |-> CountBy(notes, TypeOf),
     byStatus |-> CountBy(notes, StatusOf),
     byCategory |-> CountBy(notes, CategoryOf),
     recentlyModified |->
         [i \in 1..Min(RecentCount, Len(notes)) |->
             [title |-> notes[i].title, path |-> notes[i].path,
              modified |-> notes[i].frontmatter.modified]]]

\* case 'summarize_notes': the enum checks, vault.searchNotes('', options),
\* and the summary of the notes it returned (Summary of memResult / dbResult)
summarize_notes(args) ==
    /\ ~ResultPending
    /\ request' = Request("summarize_notes", args, NotAString)
    /\ lastOp' = "summarize_notes"
    /\ lastArg' = SummarizeOptions(args)
    /\ IF SummarizeCheck(args) # "ok"
       THEN /\ response' = createErrorResponse(SummarizeCheck(args))
            /\ vaultCalls' = <<>>
            /\ memResult' = <<>>
            /\ dbResult' = <<>>
       ELSE /\ response' = createSuccessResponse("summary")
            /\ vaultCalls' = <<VaultCall("searchNotes", EmptyStr)>>
            /\ memResult' = MemSearchNotes(memNotes, memFuse, EmptyStr,
                                           SummarizeOptions(args), tz)
            /\ dbResult' \in DbSearchNotes(db, EmptyStr, SummarizeOptions(args))
    /\ UNCHANGED <<tz, store, indexer, dates, transaction, rebuilds, process, steps>>

\* the filters summarize_notes is called with
SummarizeArgs ==
    {NoQuery, TypeQ(E_note), TypeQ(E_daily), TypeQ(E_bogus),
     [NoQuery EXCEPT !.status = E_active], [NoQuery EXCEPT !.category = E_work],
     TagsQ(<<T_work>>), TagsQ(<<T_personal>>),
     [NoQuery EXCEPT !.type = E_note, !.dateFrom = D_0115, !.limit = 1, !.hasLimit = TRUE]}

\* the response is handed to the transport and the handler is done
respond ==
    /\ lastOp \in {"search_notes", "get_note", "summarize_notes"}
    /\ lastOp' = "return"
    /\ lastArg' = NoQuery
    /\ memResult' = <<>>
    /\ dbResult' = <<>>
    /\ request' = NoRequest
    /\ response' = NoResponse
    /\ vaultCalls' = <<>>
    /\ UNCHANGED <<tz, store, indexer, dates, transaction, rebuilds, process, steps>>

ServerNext ==
    \/ \E args \in ServerQueries : search_notes(args)
    \/ \E requestedPath \in RequestPaths : get_note(requestedPath)
    \/ \E args \in SummarizeArgs : summarize_notes(args)
    \/ \E q \in ServerQueries : searchNotes(q)
    \/ return
    \/ respond

\* the notes initialize() has handed to storage.upsertNotes
\* a sample note as indexNotes() builds it: an excerpt, '' for a missing date
AsIndexed(n) ==
    [n EXCEPT !.excerpt = createExcerpt(n.content),
              !.frontmatter.created = IF Truthy(@) THEN @ ELSE EmptyStr,
              !.frontmatter.modified = IF Truthy(@) THEN @ ELSE EmptyStr]

\* the sample notes indexNotes() can build: type, status and category are set
IndexableNotes ==
    {AsIndexed(n) : n \in {m \in SampleNotes :
        /\ Truthy(m.frontmatter.type)
        /\ Truthy(m.frontmatter.status)
        /\ Truthy(m.frontmatter.category)}}

IndexedVaults ==
    UNION {[1..n -> IndexableNotes] : n \in 0..MaxBatch}
    \cup {[i \in 1..BulkSize |-> AsIndexed(BulkBatch[i])]}

\* the server once main() has awaited vault.initialize(), on either storage
ServerInit ==
    /\ tz \in HostOffsets
    /\ \E batch \in IndexedVaults :
           /\ memNotes = MapSetAll(<<>>, batch)
           /\ memFuse = rebuildSearchIndex(MapSetAll(<<>>, batch))
           /\ db = DbTransaction(EmptyDb, batch)
           /\ latest = RecordAll({}, batch)
    /\ ops = 1
    /\ lastOp = "initialize"
    /\ lastArg = NoQuery
    /\ memResult = <<>>
    /\ dbResult = <<>>
    /\ disk = {}
    /\ cfg \in {[Config(useMemory, <<G_all>>) EXCEPT !.maxSearchResults = m] :
                    useMemory \in BOOLEAN, m \in {MinSearchResults, MaxSearchResults}}
    /\ phase = "ready"
    /\ files = <<>>
    /\ pc = <<>>
    /\ parsed = <<>>
    /\ indexErrors = <<>>
    /\ readLog = {}
    /\ passes = 1
    /\ request = NoRequest
    /\ response = NoResponse
    /\ vaultCalls = <<>>
    /\ dateString = EmptyStr
    /\ parsedDate = NotParsed
    /\ txn = NoTxn
    /\ rebuilds = 1
    /\ proc = "connected"
    /\ exitCode = NoExit
    /\ steps = InitializeSteps

ServerSpec == ServerInit /\ [][ServerNext]_vars

---------------------------------------------------------------------------
(* Startup: main() initializes the vault, then connects the transport *)

\* main() that calls vault.initialize() without awaiting it
AwaitedInitialize_NotAwaited(ph) == ph # "idle"

\* await vault.initialize() has returned: main() goes on to connect
AwaitedInitialize(ph) == ph = "ready"

StartupRequests == {NoQuery, TextQ(W_plan), TypeQ(E_bogus)}

\* main(): await vault.initialize()
startInitialize ==
    /\ proc = "starting"
    /\ phase = "idle"
    /\ initialize

\* this.storage.initialize() throws (the tables cannot be created) or the glob
\* scan throws: initialize() rethrows before any file is indexed
initializeThrows ==
    /\ proc = "starting"
    /\ phase = "idle"
    /\ ~cfg.useMemory
    /\ phase' = "failed"
    /\ passes' = passes + 1
    /\ indexErrors' = <<>>
    /\ steps' = <<>>
    /\ UNCHANGED <<disk, cfg, files, pc, parsed, readLog, memNotes, memFuse, db, client,
                   rebuilds>>

\* const transport = new StdioServerTransport(); await server.connect(transport)
connect ==
    /\ proc = "starting"
    /\ AwaitedInitialize(phase)
    /\ proc' = "connected"
    /\ UNCHANGED <<tz, store, lastOp, lastArg, memResult, dbResult, indexer, server, dates,
                   transaction, rebuilds, exitCode, steps>>

\* catch (error) { ...; process.exit(1) }
exit ==
    /\ proc = "starting"
    /\ phase = "failed"
    /\ proc' = "exited"
    /\ exitCode' = <<1>>
    /\ UNCHANGED <<tz, store, lastOp, lastArg, memResult, dbResult, indexer, server, dates,
                   transaction, rebuilds, steps>>

\* a request arrives over the connected transport and is handled
callTool(args) ==
    /\ proc = "connected"
    /\ search_notes(args)

StartupNext ==
    \/ startInitialize
    \/ initializeThrows
    \/ \E i \in 1..Len(files) : statReturns(i)
    \/ \E i \in 1..Len(files) : readReturns(i)
    \/ storeNotes
    \/ connect
    \/ exit
    \/ \E args \in StartupRequests : callTool(args)
    \/ respond

StartupSpec == IndexInit /\ [][StartupNext]_vars

---------------------------------------------------------------------------
(* Vocabulary of the properties *)

ResultPaths(r) == {r[i].path : i \in 1..Len(r)}

StoredPaths == {n.path : n \in latest}

\* the limit a query asks for: the supplied one, or the default of 20
RequestedLimit(q) == IF q.hasLimit THEN q.limit ELSE 20

\* the limit of q cannot cut its result short
LimitNotBinding(q) == RequestedLimit(q) >= Cardinality(latest)

\* q supplies no free text and no filter but (possibly) includeArchive and limit
NoFilters(q) ==
    /\ q.text = EmptyStr /\ q.tags = <<>>
    /\ ~Truthy(q.path) /\ ~Truthy(q.type) /\ ~Truthy(q.status) /\ ~Truthy(q.category)
    /\ ~Truthy(q.dateFrom) /\ ~Truthy(q.dateTo)

ArchivePrefix == <<"a", "r", "c", "h", "i", "v", "e", "/">>

InArchive(path) == StartsWith(ToLowerCase(path), ArchivePrefix)

\* some path has been upserted twice since the last clear, with two versions
\* that differ in title
SomePathReplaced ==
    \E i, j \in 1..Len(db.fts) :
        i < j /\ db.fts[i].path = db.fts[j].path /\ db.fts[i].title # db.fts[j].title

---------------------------------------------------------------------------
(* C1: for the same calls and a query with empty free text whose limit is   *)
(* at least the number of matching documents, searchNotes returns the same *)
(* set of paths from MemoryStorage and from DatabaseStorage.               *)
C1_SameStructuralMatches ==
    (lastOp = "searchNotes" /\ lastArg.text = EmptyStr /\ LimitNotBinding(lastArg))
        => ResultPaths(memResult) = ResultPaths(dbResult)

---------------------------------------------------------------------------
(* C2: in each backend every upserted path has exactly one stored record,   *)
(* and the record, its tag list and its custom fields are those of the most *)
(* recent upsert of the path: nothing of an earlier version survives and no *)
(* tag association is duplicated.                                          *)

\* a stored scalar is the upserted one, or the given reading of a missing one
ScalarIs(stored, upserted, missing) ==
    IF Truthy(upserted) THEN stored = upserted ELSE stored \in missing

\* the stored note is the upserted one, a missing optional scalar reading back
\* as missing (Undefined, Null) or as its documented default
IsVersion(stored, n) ==
    /\ stored.path = n.path /\ stored.title = n.title /\ stored.content = n.content
    /\ ScalarIs(stored.excerpt, n.excerpt, {Undefined, Null})
    /\ ScalarIs(stored.frontmatter.created, n.frontmatter.created, {Undefined, Null})
    /\ ScalarIs(stored.frontmatter.modified, n.frontmatter.modified, {Undefined, Null})
    /\ ScalarIs(stored.frontmatter.type, n.frontmatter.type, {Undefined, E_note})
    /\ ScalarIs(stored.frontmatter.status, n.frontmatter.status, {Undefined, E_active})
    /\ ScalarIs(stored.frontmatter.category, n.frontmatter.category, {Undefined, E_personal})
    /\ Range(stored.frontmatter.tags) = Range(n.frontmatter.tags)
    /\ Len(stored.frontmatter.tags) = Len(n.frontmatter.tags)
    /\ {<<kv[1], kv[2].v>> : kv \in stored.frontmatter.custom}
           = {<<kv[1], kv[2].v>> : kv \in n.frontmatter.custom}

C2_OneRecordPerPathLatestVersion ==
    /\ Len(MemGetAllNotes(memNotes)) = Cardinality(StoredPaths)
    /\ Len(DbGetAllNotes(db)) = Cardinality(StoredPaths)
    /\ ResultPaths(MemGetAllNotes(memNotes)) = StoredPaths
    /\ ResultPaths(DbGetAllNotes(db)) = StoredPaths
    /\ \A n \in latest :
        /\ IsVersion(MemGetNote(memNotes, n.path), n)
        /\ IsVersion(DbGetNote(db, n.path), n)
        /\ Cardinality({i \in 1..Len(db.tags) : db.tags[i].path = n.path})
               = Len(n.frontmatter.tags)
        /\ Cardinality({i \in 1..Len(db.fm) : db.fm[i].path = n.path})
               = Cardinality(n.frontmatter.custom)

\* NoteA2 has replaced NoteA1, whose tags and custom field it does not carry
C2_Witness ==
    /\ lastOp \in {"upsertNote", "upsertNotes"}
    /\ SomePathReplaced
    /\ NoteA2 \in latest
    /\ \E i \in 1..Len(db.fts) : db.fts[i] = FtsRow(NoteA1)

---------------------------------------------------------------------------
(* C3: in each backend the text index holds one entry per stored path, that *)
(* of the latest version: a free-text search returns a path only if the     *)
(* latest version of that path mentions the term, and after clear() a      *)
(* free-text search returns nothing.                                       *)

\* the term (or its stem) occurs in a searchable field of the note
Mentions(n, term) ==
    \E f \in FuseFields(n) : Includes(ToLowerCase(f), PorterStem(term))

C3_TextIndexIsLatestVersion ==
    (lastOp = "searchNotes" /\ Truthy(lastArg.text)) =>
        \A p \in ResultPaths(memResult) \cup ResultPaths(dbResult) :
            \E n \in latest : n.path = p /\ Mentions(n, lastArg.text)

---------------------------------------------------------------------------
(* Vocabulary of the query properties *)

\* the tag (or the only tag) the last query asks for
AskedTag == lastArg.tags[1]

\* the last call is getNotesByTag, or a searchNotes that supplies one tag and
\* nothing else that could hide a stored note
TagQueryOnly ==
    \/ lastOp = "getNotesByTag"
    \/ /\ lastOp = "searchNotes"
       /\ Len(lastArg.tags) = 1
       /\ NoFilters([lastArg EXCEPT !.tags = <<>>])
       /\ LimitNotBinding(lastArg)

\* the last call does not leave note n out because of the archive folder
Visible(n) ==
    lastOp = "searchNotes" => (lastArg.includeArchive \/ ~InArchive(n.path))

IsLowerCase(s) == ToLowerCase(s) = s

---------------------------------------------------------------------------
(* C4: in both backends, for lower-case tags t of a document and s          *)
(* requested, the document's tag t satisfies s in getNotesByTag and in the  *)
(* searchNotes tag filter exactly when t = s or t begins with s + "/".      *)

Satisfies(t, s) == t = s \/ StartsWith(t, s \o <<"/">>)

C4_HierarchicalTagMatch ==
    (TagQueryOnly /\ IsLowerCase(AskedTag)) =>
        \A n \in latest :
            (Visible(n) /\ \A t \in Range(n.frontmatter.tags) : IsLowerCase(t)) =>
                LET matched == \E t \in Range(n.frontmatter.tags) : Satisfies(t, AskedTag)
                IN  /\ n.path \in ResultPaths(memResult) <=> matched
                    /\ n.path \in ResultPaths(dbResult) <=> matched

---------------------------------------------------------------------------
(* C5: tag matching ignores letter case in both backends and storage keeps  *)
(* it: a document with a tag t such that lower(t) = lower(s) or lower(t)    *)
(* begins with lower(s) + "/" is returned by getNotesByTag(s) and by        *)
(* searchNotes with tags = [s], and getNote returns t in its original case. *)

C5_TagMatchIgnoresCase ==
    TagQueryOnly =>
        \A n \in latest : \A t \in Range(n.frontmatter.tags) :
            (Visible(n) /\ Satisfies(ToLowerCase(t), ToLowerCase(AskedTag))) =>
                /\ n.path \in ResultPaths(memResult)
                /\ n.path \in ResultPaths(dbResult)
                /\ t \in Range(MemGetNote(memNotes, n.path).frontmatter.tags)
                /\ t \in Range(DbGetNote(db, n.path).frontmatter.tags)

---------------------------------------------------------------------------
(* C6: in both backends the path filter selects a document exactly when:    *)
(* the pattern ends with "/**" and the lower-cased path starts with the     *)
(* lower-cased pattern without that marker; or the pattern does not end so  *)
(* and the lower-cased path contains it as a literal substring.             *)

PathSelected(path, pattern) ==
    IF EndsWith(pattern, <<"/", "*", "*">>)
    THEN StartsWith(ToLowerCase(path), ToLowerCase(SubSeq(pattern, 1, Len(pattern) - 3)))
    ELSE Includes(ToLowerCase(path), ToLowerCase(pattern))

C6_PathFilterLiteral ==
    (/\ lastOp = "searchNotes"
     /\ Truthy(lastArg.path)
     /\ NoFilters([lastArg EXCEPT !.path = Undefined])
     /\ LimitNotBinding(lastArg)) =>
        \A n \in latest :
            Visible(n) =>
                /\ n.path \in ResultPaths(memResult) <=> PathSelected(n.path, lastArg.path)
                /\ n.path \in ResultPaths(dbResult) <=> PathSelected(n.path, lastArg.path)

---------------------------------------------------------------------------
(* C7: in both backends searchNotes without includeArchive never returns a  *)
(* document whose lower-cased path begins with "archive/"; with             *)
(* includeArchive = true (and a limit that does not bind) such a document   *)
(* is returned exactly when it passes the other filters of the query.       *)

\* note n passes the free text and the filters of q in MemoryStorage
MemPasses(n, q) ==
    /\ MemKeeps(n, q, tz)
    /\ (Truthy(q.text) /\ memFuse.built) => FuseMatches(n, q.text)

\* the row of path p passes the free text and the filters of q in DatabaseStorage
DbPasses(p, q) ==
    \E r \in Range(db.notes) : r.path = p /\ DbWhere(db, r, q.text, q)

C7_ArchiveExcludedUnlessIncluded ==
    lastOp = "searchNotes" =>
        /\ ~lastArg.includeArchive =>
               \A p \in ResultPaths(memResult) \cup ResultPaths(dbResult) : ~InArchive(p)
        /\ (lastArg.includeArchive /\ LimitNotBinding(lastArg)) =>
               \A n \in latest : InArchive(n.path) =>
                   /\ n.path \in ResultPaths(memResult) <=> MemPasses(n, lastArg)
                   /\ n.path \in ResultPaths(dbResult) <=> DbPasses(n.path, lastArg)

\* an archived note is stored, passes a filter and is returned by both stores
C7_Witness ==
    /\ lastOp = "searchNotes"
    /\ lastArg.includeArchive
    /\ lastArg.tags = <<T_personal>>
    /\ P_ArchiveX \in ResultPaths(memResult)
    /\ P_ArchiveX \in ResultPaths(dbResult)

---------------------------------------------------------------------------
(* Vocabulary of the combined-filter properties *)

\* q with a limit that cannot cut its result short
Unlimited(q) == [q EXCEPT !.hasLimit = TRUE, !.limit = Cardinality(latest) + 1]

\* the paths each store returns for q when the limit does not bind
MemPaths(q) == ResultPaths(MemSearchNotes(memNotes, memFuse, q.text, Unlimited(q), tz))
DbPaths(q) == UNION {ResultPaths(r) : r \in DbSearchNotes(db, q.text, Unlimited(q))}

\* q stripped of its free text and of every filter but includeArchive
Base(q) == [NoQuery EXCEPT !.includeArchive = q.includeArchive]

\* the queries that supply one of the scalar filters of q each
Parts(q) ==
    {[Base(q) EXCEPT !.path = q.path] : x \in IF Truthy(q.path) THEN {1} ELSE {}}
    \cup {[Base(q) EXCEPT !.type = q.type] : x \in IF Truthy(q.type) THEN {1} ELSE {}}
    \cup {[Base(q) EXCEPT !.status = q.status] : x \in IF Truthy(q.status) THEN {1} ELSE {}}
    \cup {[Base(q) EXCEPT !.category = q.category] :
             x \in IF Truthy(q.category) THEN {1} ELSE {}}
    \cup {[Base(q) EXCEPT !.dateFrom = q.dateFrom] :
             x \in IF Truthy(q.dateFrom) THEN {1} ELSE {}}
    \cup {[Base(q) EXCEPT !.dateTo = q.dateTo] : x \in IF Truthy(q.dateTo) THEN {1} ELSE {}}

\* the queries that ask for one of the tags of q each
TagParts(q) == {[Base(q) EXCEPT !.tags = <<q.tags[i]>>] : i \in 1..Len(q.tags)}

\* the paths that satisfy every supplied filter of q at once, Paths(s) being
\* the paths that satisfy the single filter of s
AllOf(Paths(_), q) ==
    {p \in Paths(Base(q)) :
        /\ \A s \in Parts(q) : p \in Paths(s)
        /\ Len(q.tags) > 0 => \E s \in TagParts(q) : p \in Paths(s)}

\* the stored notes whose field (type, status or category) is exactly `value`
\* and that the archive rule does not hide
ExactlyEqual(stored, field, value, includeArchive) ==
    {stored[i].path : i \in {j \in 1..Len(stored) :
        /\ stored[j].frontmatter[field] = value
        /\ (includeArchive \/ ~InArchive(stored[j].path))}}

\* the type, status and category filters of q select by exact equality with
\* the stored value
EnumsExact(Paths(_), stored, q) ==
    /\ Truthy(q.type) =>
           Paths([Base(q) EXCEPT !.type = q.type])
               = ExactlyEqual(stored, "type", q.type, q.includeArchive)
    /\ Truthy(q.status) =>
           Paths([Base(q) EXCEPT !.status = q.status])
               = ExactlyEqual(stored, "status", q.status, q.includeArchive)
    /\ Truthy(q.category) =>
           Paths([Base(q) EXCEPT !.category = q.category])
               = ExactlyEqual(stored, "category", q.category, q.includeArchive)

---------------------------------------------------------------------------
(* C8: in both backends, with the limit not binding, searchNotes returns a  *)
(* stored document exactly when it satisfies every supplied filter at once: *)
(* the result of a query is the intersection of the results of its single   *)
(* filters, type / status / category select by exact equality, a list of    *)
(* tags selects what any one of its tags selects, and a free-text query     *)
(* only removes documents from that set.                                   *)

C8_FiltersAreConjoined ==
    (lastOp = "searchNotes" /\ LimitNotBinding(lastArg)) =>
        LET filters == [lastArg EXCEPT !.text = EmptyStr]
        IN  /\ MemPaths(filters) = AllOf(MemPaths, filters)
            /\ DbPaths(filters) = AllOf(DbPaths, filters)
            /\ EnumsExact(MemPaths, MemGetAllNotes(memNotes), filters)
            /\ EnumsExact(DbPaths, DbGetAllNotes(db), filters)
            /\ ResultPaths(memResult) \subseteq MemPaths(filters)
            /\ ResultPaths(dbResult) \subseteq DbPaths(filters)
            /\ lastArg.text = EmptyStr =>
                   /\ ResultPaths(memResult) = MemPaths(filters)
                   /\ ResultPaths(dbResult) = DbPaths(filters)

\* a query with two tags returns a note that carries one of them only, and a
\* query with a tag, a type and a status returns the one note passing all three
C8_Witness ==
    /\ lastOp = "searchNotes"
    /\ \/ /\ lastArg.tags = <<T_homework, T_personal>>
          /\ P_WorkA \in ResultPaths(memResult) \cap ResultPaths(dbResult)
       \/ /\ lastArg.tags = <<T_work>> /\ lastArg.type = E_project
          /\ lastArg.status = E_active
          /\ ResultPaths(memResult) = {P_WorkA}
          /\ ResultPaths(dbResult) = {P_WorkA}
          /\ Cardinality(latest) > 1

---------------------------------------------------------------------------
(* C9: in both backends a searchNotes date range is an inclusive comparison *)
(* against the document's modified date: with dateFrom and/or dateTo        *)
(* supplied, a document is returned exactly when its modified date is       *)
(* present and dateFrom <= modified <= dateTo (each bound applied only if   *)
(* supplied); a document without a modified date is never returned.         *)
(* Stated for documents whose modified value is absent or a calendar date   *)
(* in YYYY-MM-DD form.                                                     *)

\* calendar date a is not after calendar date b (both YYYY-MM-DD)
DateLeq(a, b) ==
    DayOrdinal(YearOf(a), MonthOf(a), DayOf(a)) <= DayOrdinal(YearOf(b), MonthOf(b), DayOf(b))

\* the modified date of n lies in the range q asks for
InDateRange(n, q) ==
    /\ Truthy(n.frontmatter.modified)
    /\ Truthy(q.dateFrom) => DateLeq(q.dateFrom, n.frontmatter.modified)
    /\ Truthy(q.dateTo) => DateLeq(n.frontmatter.modified, q.dateTo)

C9_InclusiveDateRange ==
    (/\ lastOp = "searchNotes"
     /\ Truthy(lastArg.dateFrom) \/ Truthy(lastArg.dateTo)
     /\ NoFilters([lastArg EXCEPT !.dateFrom = Undefined, !.dateTo = Undefined])
     /\ LimitNotBinding(lastArg)) =>
        \A n \in latest :
            (/\ Visible(n)
             /\ Truthy(n.frontmatter.modified) => IsDateFormat(n.frontmatter.modified)) =>
                /\ n.path \in ResultPaths(memResult) <=> InDateRange(n, lastArg)
                /\ n.path \in ResultPaths(dbResult) <=> InDateRange(n, lastArg)

---------------------------------------------------------------------------
(* C10 as claimed: in both backends searchNotes applies the limit last: for *)
(* every non-negative integer limit the result is the first min(limit,      *)
(* number of matches) documents of the ordered match list, and when no      *)
(* limit is supplied the result has at most 20 documents.                  *)

\* r is the first min(limit, number of matches) documents of the match list
FirstOf(r, matches, limit) ==
    r = SubSeq(matches, 1, Min(limit, Len(matches)))

LimitAppliedLast(q) ==
    /\ q.hasLimit =>
           /\ FirstOf(memResult,
                      MemSearchNotes(memNotes, memFuse, q.text, Unlimited(q), tz), q.limit)
           /\ \E matches \in DbSearchNotes(db, q.text, Unlimited(q)) :
                  FirstOf(dbResult, matches, q.limit)
    /\ ~q.hasLimit =>
           /\ Len(memResult) <= 20 /\ Len(dbResult) <= 20
           /\ FirstOf(memResult,
                      MemSearchNotes(memNotes, memFuse, q.text, Unlimited(q), tz), 20)
           /\ \E matches \in DbSearchNotes(db, q.text, Unlimited(q)) :
                  FirstOf(dbResult, matches, 20)

C10_AnyLimitAppliedLast ==
    lastOp = "searchNotes" => LimitAppliedLast(lastArg)

(* C10, amended: the same for every positive integer limit.                 *)
C10_PositiveLimitAppliedLast ==
    (lastOp = "searchNotes" /\ (lastArg.hasLimit => lastArg.limit >= 1)) =>
        LimitAppliedLast(lastArg)

\* a limit of 1 cuts a list of several matches down to its first document
C10_Witness ==
    /\ lastOp = "searchNotes"
    /\ lastArg.hasLimit /\ lastArg.limit = 1
    /\ Len(MemSearchNotes(memNotes, memFuse, lastArg.text, Unlimited(lastArg), tz)) > 1
    /\ Len(memResult) = 1
    /\ Len(dbResult) = 1

---------------------------------------------------------------------------
(* Vocabulary of the recency properties *)

\* the date a document's recency is read from: modified, or created when
\* modified is absent
RecencyDate(n) ==
    IF Truthy(n.frontmatter.modified) THEN n.frontmatter.modified
    ELSE n.frontmatter.created

\* document a is at least as recent as document b; stated for documents whose
\* recency date is a calendar date in YYYY-MM-DD form
AtLeastAsRecent(a, b) ==
    (IsDateFormat(RecencyDate(a)) /\ IsDateFormat(RecencyDate(b)))
        => DateLeq(RecencyDate(b), RecencyDate(a))

\* r lists documents in descending recency
ByDescendingRecency(r) ==
    \A i, j \in 1..Len(r) : i < j => AtLeastAsRecent(r[i], r[j])

\* r lists each of its documents once
NoRepeats(r) == \A i, j \in 1..Len(r) : r[i].path = r[j].path => i = j

---------------------------------------------------------------------------
(* C11: in both backends, for every store content and every n >= 1,         *)
(* getRecentNotes(n) returns min(n, number of stored documents) documents   *)
(* ordered by descending recency, where a document's recency is its         *)
(* modified date, or its created date when modified is absent.             *)

\* r is a most-recent-first list of min(n, number stored) stored documents
MostRecent(r, n) ==
    /\ Len(r) = Min(n, Cardinality(latest))
    /\ NoRepeats(r)
    /\ ResultPaths(r) \subseteq StoredPaths
    /\ ByDescendingRecency(r)
    /\ \A i \in 1..Len(r) : \A m \in latest :
           m.path \notin ResultPaths(r) => AtLeastAsRecent(r[i], m)

C11_RecentNotesByRecency ==
    lastOp = "getRecentNotes" =>
        /\ MostRecent(memResult, lastArg.limit)
        /\ MostRecent(dbResult, lastArg.limit)

---------------------------------------------------------------------------
(* C12: in both backends getNotesByTag(tag) returns every stored document   *)
(* that has at least one tag matching tag hierarchically, untruncated,      *)
(* ordered by descending recency (modified, falling back to created).       *)
(* Stated for lower-case tags free of the characters "_" and "%".           *)

PlainTag(t) == IsLowerCase(t) /\ \A i \in 1..Len(t) : t[i] \notin {"_", "%"}

\* r lists, most recent first, the stored documents with a tag satisfying s
TaggedByRecency(r, s) ==
    /\ NoRepeats(r)
    /\ ResultPaths(r) \subseteq StoredPaths
    /\ \A n \in latest :
           (\A t \in Range(n.frontmatter.tags) : PlainTag(t)) =>
               (n.path \in ResultPaths(r)
                    <=> \E t \in Range(n.frontmatter.tags) : Satisfies(t, s))
    /\ ByDescendingRecency(r)

C12_NotesByTagByRecency ==
    (lastOp = "getNotesByTag" /\ PlainTag(AskedTag)) =>
        /\ TaggedByRecency(memResult, AskedTag)
        /\ TaggedByRecency(dbResult, AskedTag)

---------------------------------------------------------------------------
(* C13: in each backend, for every list of documents (including a list that *)
(* names the same path more than once), upsertNotes(list) leaves the store  *)
(* in the same observable end state (results of getAllNotes, getNote,       *)
(* searchNotes, getNotesByTag, getRecentNotes) as calling upsertNote on     *)
(* each element in list order.                                             *)

RECURSIVE MemAfterEach(_, _)
\* MemoryStorage after upsertNote on each element of the list, in order
MemAfterEach(mem, list) ==
    IF list = <<>> THEN mem
    ELSE LET notes == MapSet(mem.notes, Head(list))
         IN  MemAfterEach([notes |-> notes, fuse |-> rebuildSearchIndex(notes)], Tail(list))

RECURSIVE DbAfterEach(_, _)
\* DatabaseStorage after upsertNote on each element of the list, in order
DbAfterEach(tbl, list) ==
    IF list = <<>> THEN tbl
    ELSE DbAfterEach(DbUpsertOne(tbl, Head(list)), Tail(list))

\* MemoryStorage answers alike in two states: getAllNotes, getNote,
\* getNotesByTag and getRecentNotes read the map only, searchNotes the map
\* and the index
MemObservablyEqual(notes1, fuse1, notes2, fuse2) ==
    /\ notes1 = notes2
    /\ \A q \in Queries :
           MemSearchNotes(notes1, fuse1, q.text, q, tz)
               = MemSearchNotes(notes2, fuse2, q.text, q, tz)

\* every query of DatabaseStorage reads the tables only
BatchAsSequence(list) ==
    LET each == MemAfterEach([notes |-> memNotes, fuse |-> memFuse], list)
    IN  /\ MemObservablyEqual(memNotes', memFuse', each.notes, each.fuse)
        /\ db' = DbAfterEach(db, list)

---------------------------------------------------------------------------
(* C14: in each backend, upserting a document that carries no type, status, *)
(* category or tags and then calling getNote on its path returns a document *)
(* with type = note, status = active, category = personal and tags = [],    *)
(* and such a document is then matched by a searchNotes filter type = note, *)
(* status = active or category = personal.                                 *)

\* getNote returns `stored` with the default of each field `upserted` lacks
DefaultsApplied(stored, upserted) ==
    /\ ~Truthy(upserted.frontmatter.type) => stored.frontmatter.type = E_note
    /\ ~Truthy(upserted.frontmatter.status) => stored.frontmatter.status = E_active
    /\ ~Truthy(upserted.frontmatter.category) => stored.frontmatter.category = E_personal
    /\ Len(upserted.frontmatter.tags) = 0 => stored.frontmatter.tags = <<>>

\* a search for the default value of a field finds the documents lacking it
DefaultsMatched(r, q) ==
    \A n \in latest :
        (/\ Visible(n)
         /\ \/ q = TypeQ(E_note) /\ ~Truthy(n.frontmatter.type)
            \/ q = [NoQuery EXCEPT !.status = E_active] /\ ~Truthy(n.frontmatter.status))
            => n.path \in ResultPaths(r)

C14_DefaultsOnRead ==
    /\ \A n \in latest :
           /\ DefaultsApplied(MemGetNote(memNotes, n.path), n)
           /\ DefaultsApplied(DbGetNote(db, n.path), n)
    /\ (lastOp = "searchNotes" /\ LimitNotBinding(lastArg)) =>
           /\ DefaultsMatched(memResult, lastArg)
           /\ DefaultsMatched(dbResult, lastArg)

---------------------------------------------------------------------------
(* Vocabulary of the indexing properties *)

\* the pass has ended: initialize() has resolved or raised
PassEnded == phase \in {"ready", "failed"}

\* the indexing errors recorded for an absolute path
ErrorsOf(path) == {k \in 1..Len(indexErrors) : indexErrors[k].path = JoinSegs(path)}

\* the candidates that name an absolute path
CandidatesOf(path) == {i \in 1..Len(files) : files[i] = path}

TooLarge(file) == file.size > cfg.maxFileSize

\* the file cannot be indexed: too large, unreadable, or its header does not parse
Fails(file) == TooLarge(file) \/ ~file.content.readable \/ ~file.content.parses

\* the notes the active storage holds
StoredNotes == IF cfg.useMemory THEN MemGetAllNotes(memNotes) ELSE DbGetAllNotes(db)

---------------------------------------------------------------------------
(* C15: an indexing pass never aborts because of one file: an unreadable    *)
(* file, a parse failure or a size violation adds one (path, reason) entry  *)
(* to the error list and the pass goes on; at the end every candidate file  *)
(* is in exactly one of the two outputs (the parsed document list or the    *)
(* error list) and initialize() resolves without raising.                  *)

\* every candidate has ended in exactly one of the two outputs
EachCandidateInOneOutput ==
    /\ Len(IndexedNotes) + Len(indexErrors) = Len(files)
    /\ \A i \in 1..Len(files) :
           /\ Fails(FileOnDisk(files[i])) <=> parsed[i] = NoNote
           /\ Fails(FileOnDisk(files[i])) <=> ErrorsOf(files[i]) # {}
           /\ Cardinality(ErrorsOf(files[i]))
                  \in {0, Cardinality(CandidatesOf(files[i]))}

C15_PassNeverAborts ==
    /\ phase # "failed"
    /\ PassEnded => EachCandidateInOneOutput

---------------------------------------------------------------------------
(* C16: for every file whose byte size exceeds maxFileSize during an        *)
(* indexing pass (a first pass or a repeated one, under any configured      *)
(* inclusion patterns): its content is never read or parsed, it is absent   *)
(* from getAllNotes() after the pass, and the pass records exactly one      *)
(* indexing error for it; a file whose size is at most maxFileSize is not   *)
(* skipped for size.                                                       *)

\* the path a file of the vault is stored under
StoredPathOf(file) == JoinSegs(Relative(VaultPath, file.path))

SkippedForSize(file) ==
    \E k \in ErrorsOf(file.path) : indexErrors[k].error = "File too large"

C16_OversizeFilesStayOut ==
    \A file \in disk :
        /\ (TooLarge(file) /\ phase \in {"indexing", "ready", "failed"}) =>
               \A i \in CandidatesOf(file.path) : i \notin readLog
        /\ (TooLarge(file) /\ PassEnded /\ CandidatesOf(file.path) # {}) =>
               /\ StoredPathOf(file) \notin ResultPaths(StoredNotes)
               /\ Cardinality(ErrorsOf(file.path)) = 1
        /\ (~TooLarge(file) /\ PassEnded) => ~SkippedForSize(file)

---------------------------------------------------------------------------
(* C17: after an indexing pass every indexed document has a type, a status  *)
(* and a category of the documented sets and a list as tags: a missing or   *)
(* invalid header value is replaced by note / active / personal / [], is    *)
(* never recorded as an indexing error, and no other header key overrides   *)
(* it.                                                                     *)

ValidMetadata(fm) ==
    /\ fm.type \in {E_note, E_project, E_task, E_daily, E_meeting}
    /\ fm.status \in {E_active, E_archived, E_idea, E_completed}
    /\ fm.category \in {E_work, E_personal, E_knowledge, E_life, E_dailies}

\* the header value, or the default when it is missing or invalid
OrDefault(valid, value, default) == IF valid THEN value.v ELSE default

HeaderDefaultsApplied(data, fm) ==
    /\ fm.type = OrDefault(isValidType(data.type), data.type, E_note)
    /\ fm.status = OrDefault(isValidStatus(data.status), data.status, E_active)
    /\ fm.category = OrDefault(isValidCategory(data.category), data.category, E_personal)
    /\ fm.tags = OrDefault(data.tags.kind = "list", data.tags, <<>>)  \* a list

C17_ValidMetadataAfterIndexing ==
    /\ \A i \in 1..Len(files) :
           (pc[i] = "done" /\ parsed[i] # NoNote) =>
               /\ ValidMetadata(parsed[i].frontmatter)
               /\ HeaderDefaultsApplied(FileOnDisk(files[i]).content.data,
                                        parsed[i].frontmatter)
               /\ (phase = "indexing" => ErrorsOf(files[i]) = {})
    /\ \A k \in 1..Len(StoredNotes) : ValidMetadata(StoredNotes[k].frontmatter)
    /\ PassEnded =>
           \A file \in disk :
               (CandidatesOf(file.path) # {} /\ ~Fails(file)) => ErrorsOf(file.path) = {}

\* a pass has stored the note of a file whose header has an invalid type,
\* status and category, a tags value that is no list, and a key "Type"
C17_Witness ==
    /\ phase = "ready"
    /\ \E file \in disk :
           /\ file.content = Parsing(BogusHeader, S_UpdatedContent)
           /\ CandidatesOf(file.path) # {}
           /\ ~TooLarge(file)
           /\ \E k \in 1..Len(StoredNotes) :
                  /\ StoredNotes[k].path = StoredPathOf(file)
                  /\ StoredNotes[k].frontmatter.type = E_note
                  /\ StoredNotes[k].frontmatter.status = E_active
                  /\ StoredNotes[k].frontmatter.category = E_personal
                  /\ StoredNotes[k].frontmatter.tags = <<>>

---------------------------------------------------------------------------
(* C19: every document path produced by the indexer and stored in either    *)
(* backend is unique, relative to the vault root and never escapes it: it   *)
(* is not absolute and has no leading ".." segment, whatever inclusion and  *)
(* exclusion patterns are configured.                                      *)

IsAbsolute(path) == Len(path) > 0 /\ path[1] = "/"

LeadsOutside(path) == path = DotDot \/ IsPrefix(DotDot \o <<"/">>, path)

StaysInRoot(path) == ~IsAbsolute(path) /\ ~LeadsOutside(path)

UniqueStoredPaths ==
    \A j, k \in 1..Len(StoredNotes) :
        StoredNotes[j].path = StoredNotes[k].path => j = k

C19_IndexedPathsStayInRoot ==
    /\ UniqueStoredPaths
    /\ \A i \in 1..Len(parsed) : parsed[i] # NoNote => StaysInRoot(parsed[i].path)
    /\ \A k \in 1..Len(StoredNotes) : StaysInRoot(StoredNotes[k].path)

---------------------------------------------------------------------------
(* C18: a search whose dateFrom or dateTo is not a parseable date is        *)
(* rejected: the search_notes handler and searchNotes of each backend       *)
(* surface an error to their caller instead of returning a result list.    *)

\* the date is supplied and is no calendar date in YYYY-MM-DD notation
Unparseable(d) == Truthy(d) /\ d \in UnparseableDates

HasUnparseableDate(q) == Unparseable(q.dateFrom) \/ Unparseable(q.dateTo)

\* the handler answered with an error and handed nothing to the vault
HandlerRejected == response.isError /\ vaultCalls = <<>>

HandlerRejectsBadDates ==
    (lastOp = "search_notes" /\ HasUnparseableDate(request.args)
        /\ SearchNotesCheck([request.args EXCEPT !.dateFrom = Undefined,
                                                 !.dateTo = Undefined], tz) = "ok")
        => /\ HandlerRejected
           /\ response.text \in {"dateFrom must be in YYYY-MM-DD format",
                                 "dateTo must be in YYYY-MM-DD format"}

\* searchNotes of either backend has one outcome, a result list in
\* memResult and dbResult (applyFilters and the SQL of DatabaseStorage have
\* no failing path), so a rejected search is one that has not returned
BackendsRejectBadDates ==
    ~(lastOp = "searchNotes" /\ HasUnparseableDate(lastArg))

C18_UnparseableDatesRejected == HandlerRejectsBadDates /\ BackendsRejectBadDates

---------------------------------------------------------------------------
(* C20: for every get_note request whose path, resolved against the vault   *)
(* root, lies outside the vault root, the handler returns an access-denied  *)
(* error before any file access or store lookup; only a path that resolves  *)
(* inside the root reaches vault.getNote.                                  *)

\* the directory entry the requested path names, resolved against the root
ResolvedRequest(p) == ResolveIn(VaultPath, normalize(p))

\* the requested path is a non-empty string that names an entry outside the root
LeavesRoot(p) ==
    /\ p.kind = "string"
    /\ PathString(p) # EmptyStr
    /\ ~IsPrefix(VaultPath, ResolvedRequest(p))

C20_OutsidePathsDenied ==
    lastOp = "get_note" =>
        /\ LeavesRoot(request.path) => (response = AccessDenied /\ vaultCalls = <<>>)
        /\ vaultCalls # <<>> =>
               /\ request.path.kind = "string"
               /\ IsPrefix(VaultPath, ResolvedRequest(request.path))

---------------------------------------------------------------------------
(* C21: summarize_notes returns, for the given tags / type / status /       *)
(* category filters, total = the number of indexed non-archived notes that  *)
(* match the filters, byType / byStatus / byCategory counts taken over all  *)
(* of those notes (each map's counts summing to total), and                 *)
(* recentlyModified = the (at most 5) most recently modified of them.       *)
(* The tag filter is stated for lower-case tags, the order for notes whose  *)
(* modified value is a calendar date in YYYY-MM-DD form.                    *)

\* note n is outside the archive and passes the filters of the request
Summarized(n, args) ==
    /\ ~InArchive(n.path)
    /\ args.tags # <<>> =>
           \E i \in 1..Len(n.frontmatter.tags), j \in 1..Len(args.tags) :
               Satisfies(ToLowerCase(n.frontmatter.tags[i]), args.tags[j])
    /\ Truthy(args.type) => n.frontmatter.type = args.type
    /\ Truthy(args.status) => n.frontmatter.status = args.status
    /\ Truthy(args.category) => n.frontmatter.category = args.category

SummarizedNotes(args) == {n \in latest : Summarized(n, args)}

RECURSIVE SumOf(_, _)
\* the sum of the counts of map f over the keys in S
SumOf(f, S) ==
    IF S = {} THEN 0
    ELSE LET k == CHOOSE x \in S : TRUE IN f[k] + SumOf(f, S \ {k})

\* map f counts the notes of the set by the field
CountsAll(f, notes, field(_)) ==
    /\ DOMAIN f = {field(n) : n \in notes}
    /\ \A v \in DOMAIN f : f[v] = Cardinality({n \in notes : field(n) = v})
    /\ SumOf(f, DOMAIN f) = Cardinality(notes)

\* the entries are notes of the set, most recently modified first, and no
\* note left out was modified after one of them
MostRecentlyModified(recent, notes) ==
    /\ Len(recent) = Min(RecentCount, Cardinality(notes))
    /\ \A i \in 1..Len(recent) : \E n \in notes : n.path = recent[i].path
    /\ \A i, j \in 1..Len(recent) : i < j =>
           ((IsDateFormat(recent[i].modified) /\ IsDateFormat(recent[j].modified))
               => DateLeq(recent[j].modified, recent[i].modified))
    /\ \A n \in notes : \A i \in 1..Len(recent) :
           (/\ n.path \notin {recent[k].path : k \in 1..Len(recent)}
            /\ IsDateFormat(n.frontmatter.modified) /\ IsDateFormat(recent[i].modified))
               => DateLeq(n.frontmatter.modified, recent[i].modified)

\* the summary the vault's storage gave the handler
ReturnedSummary == Summary(IF cfg.useMemory THEN memResult ELSE dbResult)

SummaryRight(sum, notes) ==
    /\ sum.total = Cardinality(notes)
    /\ CountsAll(sum.byType, notes, TypeOf)
    /\ CountsAll(sum.byStatus, notes, StatusOf)
    /\ CountsAll(sum.byCategory, notes, CategoryOf)
    /\ MostRecentlyModified(sum.recentlyModified, notes)

C21_SummaryCountsAllMatches ==
    (lastOp = "summarize_notes" /\ ~response.isError)
        => SummaryRight(ReturnedSummary, SummarizedNotes(request.args))

---------------------------------------------------------------------------
(* C22: for every search_notes request, either the request is rejected with *)
(* 'Limit must be between 1 and maxSearchResults' (when a limit outside     *)
(* 1..maxSearchResults is supplied) or the response contains at most        *)
(* maxSearchResults notes, whether or not a limit was supplied and for      *)
(* every configured maxSearchResults >= 1.                                  *)

LimitOutOfRange(args) ==
    args.hasLimit /\ args.limit \notin 1..cfg.maxSearchResults

LimitRejected ==
    /\ response = createErrorResponse("Limit must be between 1 and maxSearchResults")
    /\ vaultCalls = <<>>

\* the notes the response of search_notes lists
ResponseNotes == IF cfg.useMemory THEN memResult ELSE dbResult

C22_AtMostMaxSearchResults ==
    lastOp = "search_notes" =>
        IF LimitOutOfRange(request.args) THEN LimitRejected
        ELSE /\ response # createErrorResponse("Limit must be between 1 and maxSearchResults")
             /\ Len(ResponseNotes) <= cfg.maxSearchResults

---------------------------------------------------------------------------
(* C23: in each backend, for a document with title, body, excerpt, created, *)
(* modified, type, status, category and a tag list all populated,           *)
(* getNote(path) right after upsertNote(doc) returns a document equal to    *)
(* doc in every field, including the tag list and any custom fields;        *)
(* getNote of a path never upserted (or upserted before the last clear)     *)
(* returns null.                                                           *)

FullyPopulated(n) ==
    /\ Truthy(n.title) /\ Truthy(n.content) /\ Truthy(n.excerpt)
    /\ Truthy(n.frontmatter.created) /\ Truthy(n.frontmatter.modified)
    /\ Truthy(n.frontmatter.type) /\ Truthy(n.frontmatter.status)
    /\ Truthy(n.frontmatter.category)
    /\ n.frontmatter.tags # <<>>

\* both backends returned exactly this document
BothReturn(n) == memResult = <<n>> /\ dbResult = <<n>>

BothReturnNull == memResult = <<>> /\ dbResult = <<>>

C23_GetNoteRoundTrip ==
    lastOp = "getNote" =>
        IF \E n \in latest : n.path = lastArg.path
        THEN \A n \in latest :
                 (n.path = lastArg.path /\ FullyPopulated(n)) => BothReturn(n)
        ELSE BothReturnNull

---------------------------------------------------------------------------
(* C24: in each backend, after clear() and until the next upsert,           *)
(* getAllNotes returns the empty list, getNote returns null for every path, *)
(* and searchNotes (with or without free text), getNotesByTag and           *)
(* getRecentNotes return empty lists; a later upsert works normally and     *)
(* makes only the newly upserted documents visible.                        *)

ReadOps == {"getAllNotes", "getNote", "searchNotes", "getNotesByTag", "getRecentNotes"}

\* nothing has been upserted since the last clear
NothingSinceClear == latest = {}

\* every returned document is the latest version of a path upserted since
\* the last clear; the tag order of a database result is left open
OnlyUpsertedSinceClear(r) ==
    \A i \in 1..Len(r) : \E n \in latest :
        /\ n.path = r[i].path
        /\ n.title = r[i].title
        /\ n.content = r[i].content
        /\ Range(n.frontmatter.tags) = Range(r[i].frontmatter.tags)

C24_ClearWipesEverything ==
    lastOp \in ReadOps =>
        /\ NothingSinceClear => (memResult = <<>> /\ dbResult = <<>>)
        /\ OnlyUpsertedSinceClear(memResult) /\ OnlyUpsertedSinceClear(dbResult)
        /\ lastOp = "getAllNotes" =>
               /\ ResultPaths(memResult) = {n.path : n \in latest}
               /\ ResultPaths(dbResult) = {n.path : n \in latest}

\* the store held two notes, was cleared, one note was upserted, and
\* getAllNotes returns that note alone from both backends
C24_Witness ==
    /\ lastOp = "getAllNotes"
    /\ ops = 2
    /\ Cardinality(latest) = 1
    /\ Len(memResult) = 1 /\ Len(dbResult) = 1
    /\ memResult[1] \in latest

---------------------------------------------------------------------------
(* C25: what parseDate returns *)

\* The string is YYYY-MM-DD and names a day of the calendar
IsRealDate(s) ==
    /\ IsDateFormat(s)
    /\ MonthOf(s) \in 1..12
    /\ DayOf(s) \in 1..DaysInMonth(YearOf(s), MonthOf(s))

ParseReturned == parsedDate # NotParsed

\* C25: on every host offset parseDate returns a Date (of the day the string names)
\* for every real calendar date in YYYY-MM-DD form, and null for the empty string,
\* for every other format and for every impossible date.
C25_ParseDateTotal ==
    ParseReturned =>
        IF IsRealDate(dateString)
        THEN parsedDate = <<DayOrdinal(YearOf(dateString), MonthOf(dateString),
                                       DayOf(dateString))>>
        ELSE parsedDate = NoDate

---------------------------------------------------------------------------
(* C26: an upsert is one atomic unit of the Indexed Store *)

\* Every scalar row of the tables goes with the tag rows, the custom rows and the
\* newest full-text row of one and the same version of its note
WholeVersions(tbl) ==
    \A row \in Range(tbl.notes) :
        \E n \in TxnNotes \cup {NoteB1} :
            /\ NoteRow(n) = row
            /\ SelectSeqBy(tbl.tags, {r \in Range(tbl.tags) : r.path = row.path})
                   = TagRows(n)
            /\ {r \in Range(tbl.fm) : r.path = row.path}
                   = Range(SetToRows(n.path, n.frontmatter.custom))
            /\ LET mine == SelectSeqBy(tbl.fts, {r \in Range(tbl.fts) : r.path = row.path})
               IN  mine # <<>> /\ mine[Len(mine)] = FtsRow(n)

\* a statement of the unit failed
UnitFailed == txn.failed

UnitCommitted == ~txn.open /\ ~txn.failed /\ txn.unit # <<>>

\* C26: each upsertNote call and each upsertNotes batch is one atomic unit: what a
\* query finds at any moment in between holds whole versions only, never a scalar
\* row with old or missing tag, custom or full-text rows; a unit one of whose
\* statements failed leaves the tables as they were before it, and a unit that
\* went through leaves every one of its statements.
C26_UpsertIsAtomic ==
    /\ WholeVersions(db)
    /\ txn.open => db = txn.before
    /\ UnitFailed => db = txn.before
    /\ UnitCommitted => db = DbUpsertAll(txn.before, txn.unit)

C26_Witness ==
    /\ UnitFailed
    /\ Len(txn.unit) = 2
    /\ txn.work # txn.before
    /\ txn.before.notes # <<>>
    /\ lastOp = "getNote"
    /\ dbResult # <<>>

---------------------------------------------------------------------------
(* C27: the fuzzy index follows the document map *)

\* the fuzzy index is absent and the document map empty, or the index was built
\* from exactly the documents the map holds now
FuseInStep ==
    IF memFuse.built THEN memFuse.docs = memNotes
    ELSE memFuse = FuseCleared /\ memNotes = <<>>

\* C27: upsertNote performs exactly one index rebuild and upsertNotes exactly one
\* whatever the size of the batch; whenever a query runs, the fuzzy index is
\* absent with an empty document map or built from exactly the current documents.
C27_OneRebuildPerUpsert ==
    /\ lastOp \in {"upsertNote", "upsertNotes"} => rebuilds = 1
    /\ FuseInStep

C27_Witness ==
    /\ lastOp = "searchNotes"
    /\ Truthy(lastArg.text)
    /\ rebuilds = 1
    /\ Len(memNotes) = BulkSize
    /\ memFuse.docs = memNotes

---------------------------------------------------------------------------
(* C28: the transport is connected after a complete initialization only *)

Served == request # NoRequest

\* C28: the server connects its transport only after vault.initialize() has
\* completed storage initialization, the indexing pass and the batch upsert, in
\* this order; when initialization fails initialize() raises, the process exits
\* with code 1 (and with no other), and no request is ever served from a store
\* that is not fully indexed.
C28_ConnectAfterInitialize ==
    /\ proc = "connected" => phase = "ready" /\ steps = InitializeSteps
    /\ phase = "failed" => proc # "connected" /\ steps # InitializeSteps
    /\ (phase = "failed" /\ proc = "starting") => ENABLED exit
    /\ proc = "exited" <=> exitCode = <<1>>
    /\ proc = "exited" => phase = "failed"
    /\ Served => proc = "connected" /\ phase = "ready"

C28_Witness ==
    /\ Served
    /\ proc = "connected"
    /\ response = createSuccessResponse("results")
    /\ indexErrors # <<>>

---------------------------------------------------------------------------
(* C29: no path twice in a result list *)

ListOps == {"searchNotes", "getNotesByTag", "getRecentNotes", "getAllNotes"}

\* the rows of the join of a searchNotes with free text and tags that carry the
\* note of `path`: one per pair of a full-text row of the path the text matches
\* and a tag row of the path the filter matches
JoinRowsOf(tbl, path, q) ==
    {<<f, t>> \in (1..Len(tbl.fts)) \X (1..Len(tbl.tags)) :
        /\ tbl.fts[f].path = path
        /\ FtsMatches(tbl.fts[f], q.text)
        /\ tbl.tags[t].path = path
        /\ \E i \in 1..Len(q.tags) : DbTagMatches(tbl.tags[t].tag, q.tags[i])}

\* C29: in either backend no result list of searchNotes, getNotesByTag,
\* getRecentNotes or getAllNotes holds the same path twice, whatever the history
\* of the store and the query (several matching tags, free text with a tag
\* filter, a path upserted several times).
C29_NoPathTwice ==
    lastOp \in ListOps => NoRepeats(memResult) /\ NoRepeats(dbResult)

C29_Witness ==
    /\ lastOp = "searchNotes"
    /\ Truthy(lastArg.text)
    /\ Len(lastArg.tags) > 0
    /\ \E i \in 1..Len(dbResult) :
           Cardinality(JoinRowsOf(db, dbResult[i].path, lastArg)) > 1
    /\ memResult # <<>>

---------------------------------------------------------------------------
(* C30: an indexing pass does not depend on the order its callbacks finish in *)

\* What the callback of a candidate records when it runs alone from its first
\* line to its last
ErrorsAlone(path) ==
    LET file == FileOnDisk(path)
    IN  IF file.size > cfg.maxFileSize THEN <<IndexError(path, "File too large")>>
        ELSE IF ~file.content.readable THEN <<IndexError(path, "EACCES")>>
        ELSE IF ~file.content.parses THEN <<IndexError(path, "YAMLException")>>
        ELSE <<>>

\* What it returns then
NoteAlone(path) ==
    IF ErrorsAlone(path) = <<>> THEN NoteOfFile(FileOnDisk(path), VaultPath) ELSE NoNote

\* The outcome of the pass whose callbacks run one after the other
NotesInTurn ==
    LET all == [i \in 1..Len(files) |-> NoteAlone(files[i])]
    IN  SelectSeqBy(all, {n \in Range(all) : n # NoNote})

ErrorsInTurn == UNION {Range(ErrorsAlone(files[i])) : i \in 1..Len(files)}

TimesRecorded(e) == Cardinality({k \in 1..Len(indexErrors) : indexErrors[k] = e})

TimesInTurn(e) == Cardinality({i \in 1..Len(files) : ErrorsAlone(files[i]) = <<e>>})

CallbacksDone ==
    \/ PassEnded
    \/ (phase = "indexing" /\ \A i \in 1..Len(files) : pc[i] = "done")

\* C30: whatever the order in which the per-file stat, read and parse steps
\* complete, the documents handed to the storage (and stored) and the (path,
\* reason) errors of a pass are those of the pass run one file after the other;
\* the errors of an earlier pass are not carried into a later one.
C30_PassIgnoresCompletionOrder ==
    CallbacksDone =>
        /\ IndexedNotes = NotesInTurn
        /\ \A e \in Range(indexErrors) \cup ErrorsInTurn : TimesRecorded(e) = TimesInTurn(e)
        /\ (PassEnded /\ passes = 1) =>
               IF cfg.useMemory THEN memNotes = MapSetAll(<<>>, NotesInTurn)
               ELSE db = DbTransaction(EmptyDb, NotesInTurn)

\* a second pass has ended with two errors recorded in the reverse of the
\* order of their candidates, and with notes stored
C30_Witness ==
    /\ PassEnded
    /\ passes = 2
    /\ IndexedNotes # <<>>
    /\ Len(indexErrors) >= 2
    /\ \E i, j \in 1..Len(files) :
           /\ i < j
           /\ files[i] # files[j]
           /\ indexErrors[1].path = JoinSegs(files[j])
           /\ indexErrors[2].path = JoinSegs(files[i])

====
